---- MODULE Spec2Model ----
(***************************************************************************)
(* Hikvision ISAPI client with HTTP Digest Authentication and the          *)
(* enrollment / deletion handlers built on it.                             *)
(*                                                                         *)
(* JavaScript runs the handlers on one thread: code between two awaits is  *)
(* one atomic step.  Every action below is one such run-to-next-await      *)
(* segment of the source; the device's (or photo store's) answer is the    *)
(* input of the segment that follows the await.                            *)
(***************************************************************************)
EXTENDS Integers, Sequences, FiniteSets, TLC

\* ---------------------------------------------------------------- bounds
MaxCalls == 2          \* hikRequest calls each concurrent caller makes
MaxSeqCalls == 4       \* hikRequest calls the sequential caller makes
MaxWire == 3           \* requests on the wire in the concurrent-caller runs
MaxStudents == 2       \* students in one batch
MaxInvocations == 2    \* invocations of a handler in one run
MaxDirectory == 61     \* users enrolled on the device besides the students
MaxListed == 3         \* users listed on the device manager page
MaxSingles == 2        \* single-row deletes started on the page in one run
MaxSigned == 2         \* requests signed in one run of the header builder
MaxCount == 16         \* requests already signed with the cached nonce
MaxDataset == 3        \* students of the dataset the enrollment portal lists

\* ------------------------------------------------------- values of inputs
Callers == {"c1", "c2"}
DeviceIP == "10.26.30.200"
PublicIP == "8.8.8.8"
Realms == {"DS-K1T341AMF"}
Nonces == {"4e6a41", "5a6d4e"}
None == "none"

NoChallenge == [realm |-> None, nonce |-> None, qop |-> None]
\* A JSON response body of the device, as far as the handlers read it; an
\* absent statusCode is 0, an absent string is None.
Body(statusCode, sub, nestedSub, errorMsg) ==
    [statusCode |-> statusCode, subStatusCode |-> sub,
     StatusString |-> [subStatusCode |-> nestedSub], errorMsg |-> errorMsg,
     UserInfoSearch |-> [UserInfo |-> << >>, totalMatches |-> 0],
     recordDataNumber |-> 0,
     UserInfoCap |-> [maxUserNum |-> 0, maxFaceNum |-> 0]]
NoBody == Body(0, None, None, None)
NoResponse == [status |-> 0, data |-> NoBody]
\* The body of a request, as far as the device reads it: the employeeNo or
\* FPID it names, or the cursor of a search; an absent string is None, an
\* absent number 0.
NoData == [employeeNo |-> None, searchResultPosition |-> 0, maxResults |-> 0]
ForUser(employeeNo) == [NoData EXCEPT !.employeeNo = employeeNo]
NoError == [message |-> None, code |-> None, response |-> NoResponse]

VARIABLES
    challengeCache,   \* lib: const challengeCache = {}  (device ip -> challenge)
    ncCounters,       \* lib: const ncCounters = {}      ("realm:nonce" -> count)
    req,              \* per process: the hikRequest call it is in
    wire,             \* every HTTP request sent to a device, in sending order
    dev,              \* the terminal: its user directory and face library, and
                      \* how many users it counts in totalMatches but never lists
    hs                \* per handler invocation: its locals and its position

appVars == <<hs>>
vars == <<challengeCache, ncCounters, req, wire, dev, hs>>

\* ------------------------------------------------------------ formatting
Digit == <<"0", "1", "2", "3", "4", "5", "6", "7", "8", "9">>

\* String(n) for a non-negative integer: its decimal digits
RECURSIVE String(_)
String(n) == IF n < 10 THEN Digit[n + 1] ELSE String(n \div 10) \o Digit[(n % 10) + 1]

\* s.padStart(targetLength, padString) for a one-character padString
RECURSIVE padStart(_, _, _)
padStart(s, targetLength, padString) ==
    IF Len(s) >= targetLength THEN s
    ELSE padStart(padString \o s, targetLength, padString)

\* const key = `${realm}:${nonce}`
CounterKey_RealmOnly(realm, nonce) == realm

CounterKey(realm, nonce) == realm \o ":" \o nonce

\* ncCounters[key] || 0
CounterOf(counters, key) == IF key \in DOMAIN counters THEN counters[key] ELSE 0

\* ncCounters[key] = (ncCounters[key] || 0) + 1
Increment_NotStored(counters, key) ==
    [k \in DOMAIN counters \cup {key} |->
        IF k = key THEN (IF key \in DOMAIN counters THEN counters[key] ELSE 1)
        ELSE counters[k]]

Increment(counters, key) ==
    [k \in DOMAIN counters \cup {key} |->
        IF k = key THEN CounterOf(counters, key) + 1 ELSE counters[k]]

\* const nc = String(ncCounters[key]).padStart(8, '0')
NcString(n) == padStart(String(n), 8, "0")

\* -------------------------------------------------------- challenge cache
\* const cached = challengeCache[device.ip]; if (cached) return cached;
Cached(cache, ip) == ip \in DOMAIN cache

\* challengeCache[device.ip] = challenge
PutChallenge_KeepFirst(cache, ip, challenge) ==
    [a \in DOMAIN cache \cup {ip} |-> IF a \in DOMAIN cache THEN cache[a] ELSE challenge]

PutChallenge(cache, ip, challenge) ==
    [a \in DOMAIN cache \cup {ip} |-> IF a = ip THEN challenge ELSE cache[a]]

\* delete challengeCache[device.ip]
invalidateChallenge_KeepEntry(cache, ip) == cache

invalidateChallenge(cache, ip) == [a \in DOMAIN cache \ {ip} |-> cache[a]]

\* ------------------------------------------------------------ hikRequest
\* method.toUpperCase()
toUpperCase(m) ==
    CASE m = "get" -> "GET" [] m = "post" -> "POST" [] m = "put" -> "PUT"
      [] m = "delete" -> "DELETE" [] OTHER -> m

\* wwwAuth.toLowerCase() of the scheme word that starts the header
toLowerCase(w) ==
    CASE w = "Digest" -> "digest" [] w = "DIGEST" -> "digest"
      [] w = "Basic" -> "basic"
      [] w = "Ana" -> "ana" [] w = "Budi" -> "budi" [] w = "Ani" -> "ani"
      [] w = "Citra" -> "citra" [] w = "1A" -> "1a" [] w = "1B" -> "1b"
      [] w = "BU" -> "bu" [] w = "An" -> "an"
      [] OTHER -> w

\* What came back for a probe: whether anything did, the status, and the
\* scheme word that starts the WWW-Authenticate header.
Probed(ans) == [net |-> ans.net, status |-> ans.status, scheme |-> ans.scheme]
NoProbeAnswer == [net |-> FALSE, status |-> -1, scheme |-> None]

\* A hikRequest call that has not started.  no (the number of the call among
\* those of its process), probes, auths, answers, bodies, cachedAtStart and probed
\* (the answer to its latest probe, until the challenge it brought is used)
\* record what the call has done; the code does not read them.
IdleReq ==
    [pc |-> "idle", no |-> 0,
     device |-> [ip |-> None, username |-> None, password |-> None],
     method |-> None, apiPath |-> None, data |-> NoData,
     attempt |-> 0, challenge |-> NoChallenge,
     resp |-> NoResponse, err |-> NoError,
     probes |-> 0, auths |-> 0, answers |-> <<>>, cachedAtStart |-> FALSE,
     probed |-> NoProbeAnswer, bodies |-> <<>>]

\* axios.get(`http://${device.ip}/ISAPI/System/deviceInfo`, ...): the probe
ProbeMsg(p, r) ==
    [kind |-> "probe", ip |-> r.device.ip, by |-> p, call |-> r.no, method |-> "GET",
     uri |-> "/ISAPI/System/deviceInfo", realm |-> None, nonce |-> None, nc |-> None,
     refused |-> FALSE]

\* axios({...baseOpts, headers: {Authorization: authHeader}}): the real request
AuthMsg(p, r, nc) ==
    [kind |-> "auth", ip |-> r.device.ip, by |-> p, call |-> r.no, method |-> r.method,
     uri |-> r.apiPath, realm |-> r.challenge.realm, nonce |-> r.challenge.nonce,
     nc |-> nc, refused |-> FALSE]

\* The request of process p that is waiting for its answer; refused marks it
\* once the device has answered it 401.
InFlight(p) == CHOOSE i \in 1..Len(wire) :
    /\ wire[i].by = p
    /\ \A j \in (i + 1)..Len(wire) : wire[j].by # p

\* getChallenge(device) up to its first suspension: return the cached
\* challenge, or send the probe and wait for it.
getChallenge_NoCache(r, cache) ==
    [r EXCEPT !.pc = "probing", !.probes = @ + 1]

getChallenge(r, cache) ==
    IF Cached(cache, r.device.ip)
    THEN [r EXCEPT !.pc = "challenged", !.challenge = cache[r.device.ip]]
    ELSE [r EXCEPT !.pc = "probing", !.probes = @ + 1]

\* hikRequest(device, method, apiPath, data): set-up and the first loop
\* iteration up to `await getChallenge(device)`.
hikRequest(p, device, method, apiPath, data) ==
    LET r0 == [IdleReq EXCEPT !.no = req[p].no + 1,
                              !.device = device, !.method = toUpperCase(method),
                              !.apiPath = apiPath, !.data = data,
                              !.cachedAtStart = Cached(challengeCache, device.ip)]
        r1 == getChallenge(r0, challengeCache)
    IN  /\ req' = [req EXCEPT ![p] = r1]
        /\ wire' = IF r1.pc = "probing" THEN Append(wire, ProbeMsg(p, r1)) ELSE wire
        /\ UNCHANGED <<challengeCache, ncCounters, dev>>

\* What the device (or the network) can answer to the probe; the device
\* issues nonces out of d.nonces.
ProbeAnswers(d) ==
    {[net |-> FALSE, status |-> 0, scheme |-> None, realm |-> None, nonce |-> None],
     [net |-> TRUE, status |-> 200, scheme |-> None, realm |-> None, nonce |-> None],
     [net |-> TRUE, status |-> 401, scheme |-> None, realm |-> None, nonce |-> None],
     [net |-> TRUE, status |-> 401, scheme |-> "Basic", realm |-> "DS-K1T341AMF", nonce |-> None]}
    \cup
    {[net |-> TRUE, status |-> 401, scheme |-> s, realm |-> rl, nonce |-> n] :
        s \in {"Digest", "digest"}, rl \in Realms, n \in d.nonces}

\* parseDigestHeader(wwwAuth)
parseDigestHeader(ans) == [realm |-> ans.realm, nonce |-> ans.nonce, qop |-> "auth"]

\* getChallenge after the probe was answered: lines 105-117.
ProbeAnswered_AnyScheme(p) ==
    /\ req[p].pc = "probing"
    /\ \E ans \in ProbeAnswers(dev) :
        /\ IF ~ans.net
           THEN /\ req' = [req EXCEPT ![p].probed = Probed(ans), ![p].pc = "failed",
                               ![p].err = [message |-> "network", code |-> "ECONNREFUSED",
                                           response |-> NoResponse]]
                /\ UNCHANGED challengeCache
           ELSE IF ans.status # 401
           THEN /\ req' = [req EXCEPT ![p].probed = Probed(ans), ![p].pc = "failed",
                               ![p].err = [message |-> "Request failed with status code",
                                           code |-> "ERR_BAD_RESPONSE",
                                           response |-> [status |-> ans.status, data |-> NoBody]]]
                /\ UNCHANGED challengeCache
           ELSE IF ans.scheme = None
           THEN /\ req' = [req EXCEPT ![p].probed = Probed(ans), ![p].pc = "failed",
                               ![p].err = [message |-> "Device did not return a Digest challenge",
                                           code |-> None, response |-> NoResponse]]
                /\ UNCHANGED challengeCache
           ELSE /\ challengeCache' =
                      PutChallenge(challengeCache, req[p].device.ip, parseDigestHeader(ans))
                /\ req' = [req EXCEPT ![p].probed = Probed(ans), ![p].pc = "challenged",
                               ![p].challenge = parseDigestHeader(ans)]
    /\ UNCHANGED <<ncCounters, wire, dev, appVars>>

ProbeAnswered(p) ==
    /\ req[p].pc = "probing"
    /\ \E ans \in ProbeAnswers(dev) :
        /\ IF ~ans.net
           THEN /\ req' = [req EXCEPT ![p].probed = Probed(ans), ![p].pc = "failed",
                               ![p].err = [message |-> "network", code |-> "ECONNREFUSED",
                                           response |-> NoResponse]]
                /\ UNCHANGED challengeCache
           ELSE IF ans.status # 401
           THEN /\ req' = [req EXCEPT ![p].probed = Probed(ans), ![p].pc = "failed",
                               ![p].err = [message |-> "Request failed with status code",
                                           code |-> "ERR_BAD_RESPONSE",
                                           response |-> [status |-> ans.status, data |-> NoBody]]]
                /\ UNCHANGED challengeCache
           ELSE IF ans.scheme = None \/ toLowerCase(ans.scheme) # "digest"
           THEN /\ req' = [req EXCEPT ![p].probed = Probed(ans), ![p].pc = "failed",
                               ![p].err = [message |-> "Device did not return a Digest challenge",
                                           code |-> None, response |-> NoResponse]]
                /\ UNCHANGED challengeCache
           ELSE /\ challengeCache' =
                      PutChallenge(challengeCache, req[p].device.ip, parseDigestHeader(ans))
                /\ req' = [req EXCEPT ![p].probed = Probed(ans), ![p].pc = "challenged",
                               ![p].challenge = parseDigestHeader(ans)]
    /\ UNCHANGED <<ncCounters, wire, dev, appVars>>

\* buildDigestAuth and the start of the authenticated axios call: lines 190-205.
SendAuthenticated_StaleCounter(p) ==
    LET r == req[p]
        key == CounterKey(r.challenge.realm, r.challenge.nonce)
    IN  /\ r.pc = "challenged"
        /\ ncCounters' = Increment(ncCounters, key)
        /\ wire' = Append(wire, AuthMsg(p, r, NcString(CounterOf(ncCounters, key))))
        /\ req' = [req EXCEPT ![p].pc = "sent", ![p].auths = @ + 1,
                              ![p].probed = NoProbeAnswer]
        /\ UNCHANGED <<challengeCache, dev, appVars>>

SendAuthenticated_FromCache(p) ==
    LET r == req[p]
        challenge == IF Cached(challengeCache, r.device.ip)
                     THEN challengeCache[r.device.ip] ELSE r.challenge
        key == CounterKey(challenge.realm, challenge.nonce)
    IN  /\ r.pc = "challenged"
        /\ ncCounters' = Increment(ncCounters, key)
        /\ wire' = Append(wire, AuthMsg(p, [r EXCEPT !.challenge = challenge],
                                        NcString(ncCounters'[key])))
        /\ req' = [req EXCEPT ![p].pc = "sent", ![p].auths = @ + 1,
                              ![p].challenge = challenge,
                              ![p].probed = NoProbeAnswer]
        /\ UNCHANGED <<challengeCache, dev, appVars>>

SendAuthenticated(p) ==
    LET r == req[p]
        key == CounterKey(r.challenge.realm, r.challenge.nonce)
    IN  /\ r.pc = "challenged"
        /\ ncCounters' = Increment(ncCounters, key)
        /\ wire' = Append(wire, AuthMsg(p, r, NcString(ncCounters'[key])))
        /\ req' = [req EXCEPT ![p].pc = "sent", ![p].auths = @ + 1,
                              ![p].probed = NoProbeAnswer]
        /\ UNCHANGED <<challengeCache, dev, appVars>>

\* ---------------------------------------------------------------- device
\* Student names
Names == {"A", "B"}

\* md5(name).slice(0, 8).toUpperCase()
employeeNoFromName(name) ==
    CASE name = "A" -> "7FC56270" [] name = "B" -> "9D5ED678"
      [] name = "Endah Susanto Halim 11" -> "A551B7C0"
      [] name = "Endah Lim Halim 35" -> "A551B7C0"

P_INFO == "/ISAPI/System/deviceInfo"
P_CAP == "/ISAPI/AccessControl/UserInfo/capabilities?format=json"
P_SEARCH == "/ISAPI/AccessControl/UserInfo/Search?format=json"
P_RECORD == "/ISAPI/AccessControl/UserInfo/Record?format=json"
P_DELETE == "/ISAPI/AccessControl/UserInfo/Delete?format=json"
P_FDSETUP == "/ISAPI/Intelligent/FDLib/FDSetUp?format=json"
P_FDDELETE == "/ISAPI/Intelligent/FDLib/FDDelete?format=json"
P_COUNT == "/ISAPI/Intelligent/FDLib/Count?format=json"

Reply(net, status, data, d) == [net |-> net, status |-> status, data |-> data, dev |-> d]

\* Answers any request can get, whatever its path: no answer at all, the
\* nonce or the credentials refused, a device or gateway error.
FaultReplies(d) ==
    {Reply(FALSE, 0, NoBody, d),
     Reply(TRUE, 401, NoBody, d),
     Reply(TRUE, 403, Body(4, "notSupport", None, None), d),
     Reply(TRUE, 503, NoBody, d)}

\* Employee numbers of the users enrolled before the run, in device order.
Roster == [k \in 1..MaxDirectory |-> "U" \o String(k)]

\* The first t users of the roster.
Enrolled(t) == {Roster[k] : k \in 1..t}

InDirectory(d, no) == no \in d.users

\* The user directory in the order the device lists it.
Directory(d) ==
    LET a == employeeNoFromName("A")
        b == employeeNoFromName("B")
    IN  SelectSeq(Roster, LAMBDA no : InDirectory(d, no))
        \o (IF a \in d.users THEN <<a>> ELSE << >>) \o (IF b \in d.users THEN <<b>> ELSE << >>)

\* The rows of the directory from position pos on, at most maxResults of them.
Page(directory, pos, maxResults) ==
    IF pos >= Len(directory) THEN << >>
    ELSE SubSeq(directory, pos + 1,
                IF pos + maxResults < Len(directory) THEN pos + maxResults
                ELSE Len(directory))

\* Answers of the terminal to an authenticated request, by path, with the
\* directory the answer leaves behind.
DeviceReplies(r, d) ==
    FaultReplies(d) \cup
    CASE r.apiPath = P_RECORD ->
            IF r.data.employeeNo \in d.users
            THEN {Reply(TRUE, 400, Body(6, "deviceUserAlreadyExist", None, "checkUser"), d),
                  Reply(TRUE, 400, Body(0, None, "employeeNoAlreadyExist", None), d)}
            ELSE {Reply(TRUE, 200, Body(1, None, None, None),
                        [d EXCEPT !.users = @ \cup {r.data.employeeNo}]),
                  Reply(TRUE, 400, Body(6, "badJsonContent", None, "name"), d)}
      [] r.apiPath = P_DELETE ->
            IF r.data.employeeNo \in d.users
            THEN {Reply(TRUE, 200, Body(1, None, None, None),
                        [d EXCEPT !.users = @ \ {r.data.employeeNo}, !.faces = @ \ {r.data.employeeNo}]),
                  Reply(TRUE, 200, Body(3, "deviceBusy", None, None), d)}
            ELSE {Reply(TRUE, 400, Body(6, "employeeNoNotExist", None, None), d),
                  Reply(TRUE, 400, Body(0, None, "deviceUserNotExist", None), d),
                  Reply(TRUE, 400, Body(6, "badJsonContent", None, "employeeNo"), d),
                  Reply(TRUE, 200, Body(1, None, None, None), d)}
      [] r.apiPath = P_FDSETUP ->
            {Reply(TRUE, 200, Body(1, None, None, None), [d EXCEPT !.faces = @ \cup {r.data.employeeNo}]),
             Reply(TRUE, 200, Body(6, "faceDetectFailed", None, None), d),
             Reply(TRUE, 400, Body(6, "faceDetectFailed", None, None), d)}
      [] r.apiPath = P_FDDELETE ->
            IF r.data.employeeNo \in d.faces
            THEN {Reply(TRUE, 200, Body(1, None, None, None), [d EXCEPT !.faces = @ \ {r.data.employeeNo}])}
            ELSE {Reply(TRUE, 200, Body(1, None, None, None), d),
                  Reply(TRUE, 400, Body(6, "faceNotExist", None, None), d)}
      [] r.apiPath = P_SEARCH ->
            {Reply(TRUE, 200,
                   [NoBody EXCEPT !.UserInfoSearch =
                       [UserInfo |-> Page(Directory(d), r.data.searchResultPosition,
                                          r.data.maxResults),
                        totalMatches |-> Len(Directory(d)) + d.unlisted]], d)}
      [] r.apiPath = P_COUNT ->
            {Reply(TRUE, 200, [NoBody EXCEPT !.recordDataNumber = Cardinality(d.faces)], d)}
      [] r.apiPath = P_CAP ->
            {Reply(TRUE, 200, [NoBody EXCEPT !.UserInfoCap =
                                  [maxUserNum |-> 1500, maxFaceNum |-> 1500]], d)}
      [] OTHER -> {Reply(TRUE, 200, NoBody, d)}

\* if (attempt === 0) continue;
RetryAllowed_Always(attempt) == TRUE

RetryAllowed(attempt) == attempt = 0

\* for (let attempt = 0; attempt < 2; attempt++)
LoopContinues_Once(attempt) == attempt < 1

LoopContinues(attempt) == attempt < 2

\* attempt++
NextAttempt_Same(attempt) == attempt

NextAttempt(attempt) == attempt + 1

\* hikRequest after the authenticated request was answered: lines 198-222,
\* and on a retried 401 the next loop iteration up to its await.
Answered_InvalidateOnError(p) ==
    /\ req[p].pc = "sent"
    /\ \E ans \in DeviceReplies(req[p], dev) :
        LET r == [req[p] EXCEPT !.answers = Append(@, ans.status),
                                !.bodies = Append(@, ans.data)]
            resp == [status |-> ans.status, data |-> ans.data]
        IN
        /\ dev' = ans.dev
        /\ IF ~ans.net
           THEN \* axios rejects: no response
                /\ req' = [req EXCEPT ![p] = [r EXCEPT !.pc = "failed",
                              !.err = [message |-> "network", code |-> "ECONNABORTED",
                                       response |-> NoResponse]]]
                /\ UNCHANGED <<challengeCache, wire>>
           ELSE IF ~(ans.status < 500)
           THEN \* validateStatus: (s) => s < 500
                /\ req' = [req EXCEPT ![p] = [r EXCEPT !.pc = "failed",
                              !.err = [message |-> "Request failed with status code",
                                       code |-> "ERR_BAD_RESPONSE", response |-> resp]]]
                /\ UNCHANGED <<challengeCache, wire>>
           ELSE IF ans.status = 401
           THEN LET cache1 == invalidateChallenge(challengeCache, r.device.ip)
                    wire1 == [wire EXCEPT ![InFlight(p)].refused = TRUE]
                IN  /\ challengeCache' = cache1
                    /\ IF RetryAllowed(r.attempt)
                       THEN IF LoopContinues(NextAttempt(r.attempt))
                            THEN LET r1 == getChallenge([r EXCEPT !.attempt = NextAttempt(@)], cache1)
                                 IN  /\ req' = [req EXCEPT ![p] = r1]
                                     /\ wire' = IF r1.pc = "probing"
                                                THEN Append(wire1, ProbeMsg(p, r1))
                                                ELSE wire1
                            ELSE \* the loop ends: the async function resolves undefined
                                 /\ req' = [req EXCEPT ![p] =
                                               [r EXCEPT !.pc = "done", !.resp = NoResponse]]
                                 /\ wire' = wire1
                       ELSE /\ req' = [req EXCEPT ![p] = [r EXCEPT !.pc = "failed",
                                          !.err = [message |-> "Authentication failed",
                                                   code |-> None, response |-> resp]]]
                            /\ wire' = wire1
           ELSE IF ans.status >= 400
           THEN /\ req' = [req EXCEPT ![p] = [r EXCEPT !.pc = "failed",
                              !.err = [message |-> "ISAPI returned", code |-> None,
                                       response |-> resp]]]
                /\ challengeCache' = invalidateChallenge(challengeCache, r.device.ip)
                /\ UNCHANGED wire
           ELSE /\ req' = [req EXCEPT ![p] = [r EXCEPT !.pc = "done", !.resp = resp]]
                /\ UNCHANGED <<challengeCache, wire>>
    /\ UNCHANGED <<ncCounters, appVars>>

Answered_NetworkInvalidates(p) ==
    /\ req[p].pc = "sent"
    /\ \E ans \in DeviceReplies(req[p], dev) :
        LET r == [req[p] EXCEPT !.answers = Append(@, ans.status),
                                !.bodies = Append(@, ans.data)]
            resp == [status |-> ans.status, data |-> ans.data]
        IN
        /\ dev' = ans.dev
        /\ IF ~ans.net
           THEN \* axios rejects: no response
                /\ req' = [req EXCEPT ![p] = [r EXCEPT !.pc = "failed",
                              !.err = [message |-> "network", code |-> "ECONNABORTED",
                                       response |-> NoResponse]]]
                /\ challengeCache' = invalidateChallenge(challengeCache, r.device.ip)
                /\ UNCHANGED wire
           ELSE IF ~(ans.status < 500)
           THEN \* validateStatus: (s) => s < 500
                /\ req' = [req EXCEPT ![p] = [r EXCEPT !.pc = "failed",
                              !.err = [message |-> "Request failed with status code",
                                       code |-> "ERR_BAD_RESPONSE", response |-> resp]]]
                /\ UNCHANGED <<challengeCache, wire>>
           ELSE IF ans.status = 401
           THEN LET cache1 == invalidateChallenge(challengeCache, r.device.ip)
                    wire1 == [wire EXCEPT ![InFlight(p)].refused = TRUE]
                IN  /\ challengeCache' = cache1
                    /\ IF RetryAllowed(r.attempt)
                       THEN IF LoopContinues(NextAttempt(r.attempt))
                            THEN LET r1 == getChallenge([r EXCEPT !.attempt = NextAttempt(@)], cache1)
                                 IN  /\ req' = [req EXCEPT ![p] = r1]
                                     /\ wire' = IF r1.pc = "probing"
                                                THEN Append(wire1, ProbeMsg(p, r1))
                                                ELSE wire1
                            ELSE \* the loop ends: the async function resolves undefined
                                 /\ req' = [req EXCEPT ![p] =
                                               [r EXCEPT !.pc = "done", !.resp = NoResponse]]
                                 /\ wire' = wire1
                       ELSE /\ req' = [req EXCEPT ![p] = [r EXCEPT !.pc = "failed",
                                          !.err = [message |-> "Authentication failed",
                                                   code |-> None, response |-> resp]]]
                            /\ wire' = wire1
           ELSE IF ans.status >= 400
           THEN /\ req' = [req EXCEPT ![p] = [r EXCEPT !.pc = "failed",
                              !.err = [message |-> "ISAPI returned", code |-> None,
                                       response |-> resp]]]
                /\ UNCHANGED <<challengeCache, wire>>
           ELSE /\ req' = [req EXCEPT ![p] = [r EXCEPT !.pc = "done", !.resp = resp]]
                /\ UNCHANGED <<challengeCache, wire>>
    /\ UNCHANGED <<ncCounters, appVars>>

Answered(p) ==
    /\ req[p].pc = "sent"
    /\ \E ans \in DeviceReplies(req[p], dev) :
        LET r == [req[p] EXCEPT !.answers = Append(@, ans.status),
                                !.bodies = Append(@, ans.data)]
            resp == [status |-> ans.status, data |-> ans.data]
        IN
        /\ dev' = ans.dev
        /\ IF ~ans.net
           THEN \* axios rejects: no response
                /\ req' = [req EXCEPT ![p] = [r EXCEPT !.pc = "failed",
                              !.err = [message |-> "network", code |-> "ECONNABORTED",
                                       response |-> NoResponse]]]
                /\ UNCHANGED <<challengeCache, wire>>
           ELSE IF ~(ans.status < 500)
           THEN \* validateStatus: (s) => s < 500
                /\ req' = [req EXCEPT ![p] = [r EXCEPT !.pc = "failed",
                              !.err = [message |-> "Request failed with status code",
                                       code |-> "ERR_BAD_RESPONSE", response |-> resp]]]
                /\ UNCHANGED <<challengeCache, wire>>
           ELSE IF ans.status = 401
           THEN LET cache1 == invalidateChallenge(challengeCache, r.device.ip)
                    wire1 == [wire EXCEPT ![InFlight(p)].refused = TRUE]
                IN  /\ challengeCache' = cache1
                    /\ IF RetryAllowed(r.attempt)
                       THEN IF LoopContinues(NextAttempt(r.attempt))
                            THEN LET r1 == getChallenge([r EXCEPT !.attempt = NextAttempt(@)], cache1)
                                 IN  /\ req' = [req EXCEPT ![p] = r1]
                                     /\ wire' = IF r1.pc = "probing"
                                                THEN Append(wire1, ProbeMsg(p, r1))
                                                ELSE wire1
                            ELSE \* the loop ends: the async function resolves undefined
                                 /\ req' = [req EXCEPT ![p] =
                                               [r EXCEPT !.pc = "done", !.resp = NoResponse]]
                                 /\ wire' = wire1
                       ELSE /\ req' = [req EXCEPT ![p] = [r EXCEPT !.pc = "failed",
                                          !.err = [message |-> "Authentication failed",
                                                   code |-> None, response |-> resp]]]
                            /\ wire' = wire1
           ELSE IF ans.status >= 400
           THEN /\ req' = [req EXCEPT ![p] = [r EXCEPT !.pc = "failed",
                              !.err = [message |-> "ISAPI returned", code |-> None,
                                       response |-> resp]]]
                /\ UNCHANGED <<challengeCache, wire>>
           ELSE /\ req' = [req EXCEPT ![p] = [r EXCEPT !.pc = "done", !.resp = resp]]
                /\ UNCHANGED <<challengeCache, wire>>
    /\ UNCHANGED <<ncCounters, appVars>>

\* ------------------------------------------ concurrent hikRequest callers
AnyDevice == [ip |-> DeviceIP, username |-> "admin", password |-> "secret"]

\* A caller with no call in flight calls hikRequest(device, 'get', deviceInfo).
Call(c) ==
    /\ req[c].pc \in {"idle", "done", "failed"}
    /\ req[c].no < MaxCalls
    /\ Len(wire) < MaxWire
    /\ hikRequest(c, AnyDevice, "get", P_INFO, NoData)
    /\ UNCHANGED hs

NoWire == << >>

InitLib ==
    /\ challengeCache = << >>
    /\ ncCounters = << >>

InitAuth ==
    /\ InitLib
    /\ dev = [users |-> {}, faces |-> {}, nonces |-> Nonces, unlisted |-> 0]
    /\ wire = NoWire
    /\ req = [p \in Callers |-> IdleReq]
    /\ hs = << >>

NextAuth ==
    \E c \in Callers :
        \/ Call(c)
        \/ ProbeAnswered(c)
        \/ SendAuthenticated(c)
        \/ Answered(c)

SpecAuth == InitAuth /\ [][NextAuth]_vars

\* ------------------------------------------------- one sequential caller
SeqCaller == "c1"

\* The caller awaits each hikRequest before it makes the next one.
CallSeq ==
    /\ req[SeqCaller].pc \in {"idle", "done", "failed"}
    /\ req[SeqCaller].no < MaxSeqCalls
    /\ hikRequest(SeqCaller, AnyDevice, "get", P_INFO, NoData)
    /\ UNCHANGED hs

InitSeq ==
    /\ InitLib
    /\ dev = [users |-> {}, faces |-> {}, nonces |-> Nonces, unlisted |-> 0]
    /\ wire = NoWire
    /\ req = [p \in {SeqCaller} |-> IdleReq]
    /\ hs = << >>

NextSeq ==
    \/ CallSeq
    \/ ProbeAnswered(SeqCaller)
    \/ SendAuthenticated(SeqCaller)
    \/ Answered(SeqCaller)

SpecSeq == InitSeq /\ [][NextSeq]_vars

\* ------------------------------------------------------- handler inputs
Handler == "h1"

\* JavaScript truthiness of a string or an absent value
Truthy(x) == x # None /\ x # ""

\* a || b
Or(a, b) == IF Truthy(a) THEN a ELSE b

\* Address inputs as the dot-separated parts they are written with: a part
\* is a number, or -1 for text that is not a number.
AddressParts ==
    {<<a, b, c, 200>> : a \in {8, 10, 11, 127, 172, 192, 256},
                        b \in {15, 16, 26, 31, 32, 168, 169}, c \in {0, 30}}
    \cup {<<8, 8, 8, 8>>, <<192, 168, 1, 64>>, <<172, 16, 0, 9>>, <<10, 26, 30>>,
          <<10, 26, 30, 200, 1>>, << >>, <<-1>>, <<10, 26, 30, -1>>}

\* The text of an address: its parts joined with dots.
RECURSIVE Literal(_)
Literal(parts) ==
    IF Len(parts) = 0 THEN ""
    ELSE LET last == parts[Len(parts)]
             text == IF last < 0 THEN "x" ELSE String(last)
         IN  IF Len(parts) = 1 THEN text
             ELSE Literal(SubSeq(parts, 1, Len(parts) - 1)) \o "." \o text

\* The texts of the address inputs.
AddressText == [parts \in AddressParts |-> Literal(parts)]

\* ip.split('.') with each part read as a number; text that is none of the
\* address inputs is not an address at all.
split(ip) ==
    IF \E parts \in AddressParts : AddressText[parts] = ip
    THEN CHOOSE parts \in AddressParts : AddressText[parts] = ip
    ELSE <<-1>>

\* The private-LAN test of lib/hikvision: a well-formed IPv4 literal inside
\* 10.0.0.0/8, 172.16.0.0/12 or 192.168.0.0/16.
isAllowedDeviceIP_AllowMalformed(ip) ==
    LET o == split(ip)
    IN  IF ~(Len(o) = 4 /\ \A k \in 1..4 : o[k] >= 0 /\ o[k] <= 255) THEN TRUE
        ELSE \/ o[1] = 10
             \/ o[1] = 172 /\ o[2] >= 16 /\ o[2] <= 31
             \/ o[1] = 192 /\ o[2] = 168

isAllowedDeviceIP(ip) ==
    LET o == split(ip)
    IN  /\ Len(o) = 4
        /\ \A k \in 1..4 : o[k] >= 0 /\ o[k] <= 255
        /\ \/ o[1] = 10
           \/ o[1] = 172 /\ o[2] >= 16 /\ o[2] <= 31
           \/ o[1] = 192 /\ o[2] = 168

DeviceInputs ==
    {[ip |-> DeviceIP, username |-> "admin", password |-> "secret"],
     [ip |-> PublicIP, username |-> "admin", password |-> "secret"],
     [ip |-> DeviceIP, username |-> "admin", password |-> ""]}

\* res.status(code).json({...}); the fields a handler does not send are None / 0
Res(status, success, error, message) ==
    [status |-> status, success |-> success, error |-> error, message |-> message,
     successCount |-> 0, failCount |-> 0, total |-> 0]
NoRes == Res(0, FALSE, None, None)

\* result.steps.<step>: absent, or {ok, existed?, error?, data / details};
\* error is e.message, reply the response that data or details are the body of.
Step(ok, existed, error, reply) ==
    [present |-> TRUE, ok |-> ok, existed |-> existed, error |-> error, reply |-> reply]
NoStep ==
    [present |-> FALSE, ok |-> FALSE, existed |-> FALSE, error |-> None, reply |-> NoResponse]

\* const result = {studentName, className, employeeNo, steps: {}}
NewResult(name) ==
    [studentName |-> name, employeeNo |-> employeeNoFromName(name),
     steps |-> [download |-> NoStep, createUser |-> NoStep, uploadFace |-> NoStep],
     success |-> "undefined", error |-> None]
NoResult ==
    [studentName |-> None, employeeNo |-> None,
     steps |-> [download |-> NoStep, createUser |-> NoStep, uploadFace |-> NoStep],
     success |-> "undefined", error |-> None]

\* The failures of invocation s, with the call r that just ended.
Lost(s, r) ==
    IF r.pc = "failed" /\ r.err.message = "network"
    THEN s.failures \cup {r.apiPath} ELSE s.failures

\* let capacity = {}
NoCapacity == [present |-> FALSE, maxUsers |-> 0, maxFaces |-> 0]

\* A handler invocation that has not been made.  userDelete keeps how the
\* user-record delete of a delete invocation ended, failures the paths of the
\* connect or users invocation's calls that ended in a network failure.
IdleHandler ==
    [kind |-> None, pc |-> "idle", n |-> 0, method |-> None,
     device |-> [ip |-> None, username |-> None, password |-> None],
     isArray |-> FALSE, students |-> << >>, i |-> 0,
     result |-> NoResult, results |-> << >>,
     employeeNo |-> None, faceDeleted |-> FALSE, userDelete |-> NoStep,
     allUsers |-> << >>, pos |-> 0, deviceInfo |-> None,
     totalUsers |-> 0, totalFaces |-> 0,
     capacity |-> NoCapacity, failures |-> {},
     res |-> NoRes]

\* The response the hikRequest call of a handler ended with: resp when it
\* resolved, e.response when it threw.
FinalResponse(r) == IF r.pc = "done" THEN r.resp ELSE r.err.response

libVars == <<challengeCache, ncCounters, req, wire, dev>>

\* --------------------------------------------------------- batch-enroll
\* createUser(device, employeeNo, name), after hikJson settled: lines 45-57
createUser_FlatOnly(r) ==
    IF r.pc = "done" THEN Step(TRUE, FALSE, None, r.resp)
    ELSE IF r.err.response.data.subStatusCode = "deviceUserAlreadyExist"
         THEN Step(TRUE, TRUE, None, r.err.response)
         ELSE Step(FALSE, FALSE, r.err.message, r.err.response)

createUser_NoExistedFlag(r) ==
    IF r.pc = "done" THEN Step(TRUE, FALSE, None, r.resp)
    ELSE LET respData == r.err.response.data
             sub == Or(Or(respData.subStatusCode, respData.StatusString.subStatusCode), "")
         IN  IF sub = "deviceUserAlreadyExist" \/ sub = "employeeNoAlreadyExist"
             THEN Step(TRUE, FALSE, None, r.err.response)
             ELSE Step(FALSE, FALSE, r.err.message, r.err.response)

createUser(r) ==
    IF r.pc = "done" THEN Step(TRUE, FALSE, None, r.resp)
    ELSE LET respData == r.err.response.data
             sub == Or(Or(respData.subStatusCode, respData.StatusString.subStatusCode), "")
         IN  IF sub = "deviceUserAlreadyExist" \/ sub = "employeeNoAlreadyExist"
             THEN Step(TRUE, TRUE, None, r.err.response)
             ELSE Step(FALSE, FALSE, r.err.message, r.err.response)

\* uploadFaceBase64(device, employeeNo, name, jpegBase64), after hikRequest
\* settled: lines 87-98
uploadFaceBase64(r) ==
    IF r.pc = "done"
    THEN Step((r.resp.data.statusCode = 1) \/ TRUE, FALSE, None, r.resp)
    ELSE Step(FALSE, FALSE, r.err.message, r.err.response)

\* The first lines of the handler: lines 102-120.  0 means: go on.
BatchChecks_NoIPCheck(method, device, isArray, students) ==
    IF method # "POST" THEN Res(405, FALSE, "Method not allowed", None)
    ELSE IF ~Truthy(device.ip) \/ ~Truthy(device.username) \/ ~Truthy(device.password)
    THEN Res(400, FALSE, "Missing device credentials (ip, username, password)", None)
    ELSE IF ~isArray \/ Len(students) = 0
    THEN Res(400, FALSE, "No students to enroll", None)
    ELSE NoRes

BatchChecks(method, device, isArray, students) ==
    IF method # "POST" THEN Res(405, FALSE, "Method not allowed", None)
    ELSE IF ~Truthy(device.ip) \/ ~Truthy(device.username) \/ ~Truthy(device.password)
    THEN Res(400, FALSE, "Missing device credentials (ip, username, password)", None)
    ELSE IF ~isAllowedDeviceIP(device.ip)
    THEN Res(400, FALSE, "Invalid device IP. Only private LAN addresses are allowed.", None)
    ELSE IF ~isArray \/ Len(students) = 0
    THEN Res(400, FALSE, "No students to enroll", None)
    ELSE NoRes

\* results.filter((r) => r.success).length
SuccessCount(results) ==
    Cardinality({k \in 1..Len(results) : results[k].success = "true"})

\* results.filter((r) => !r.success).length
FailCount(results) ==
    Cardinality({k \in 1..Len(results) : results[k].success # "true"})

\* lines 186-193
RespondBatch(s) ==
    [s EXCEPT !.pc = "responded",
              !.res = [status |-> 200, success |-> (FailCount(s.results) = 0),
                       error |-> None, message |-> "Enrolled",
                       successCount |-> SuccessCount(s.results),
                       failCount |-> FailCount(s.results),
                       total |-> Len(s.students)]]

\* The head of one loop iteration, up to the await of the photo download:
\* lines 124-139. employeeNoFromName runs before the try block, and md5's
\* update() throws a TypeError on a studentName that is not a string; the
\* handler then ends by throwing, without a response of its own.
BeginStudent(s) ==
    IF s.students[s.i] = None
    THEN [s EXCEPT !.pc = "threw"]
    ELSE [s EXCEPT !.result = NewResult(s.students[s.i]), !.pc = "download"]

\* results.push(result), then the next iteration or the end of the loop
PushAndContinue(s) ==
    LET s1 == [s EXCEPT !.results = Append(@, s.result), !.i = @ + 1]
    IN  IF s1.i <= Len(s1.students) THEN BeginStudent(s1) ELSE RespondBatch(s1)

\* result.success = false; result.error = ...; results.push(result); continue
FailStudent_NoPush(s, error) ==
    LET s1 == [s EXCEPT !.i = @ + 1]
    IN  IF s1.i <= Len(s1.students) THEN BeginStudent(s1) ELSE RespondBatch(s1)

FailStudent(s, error) ==
    PushAndContinue([s EXCEPT !.result.success = "false", !.result.error = error])

\* The students of a request body: each has a name or lacks studentName.
StudentLists == UNION {[1..n -> Names \cup {None}] : n \in 0..MaxStudents}

\* POST /api/hikvision/batch-enroll arrives with one of the given student
\* lists as its body: lines 101-140
Enroll(h, lists) ==
    /\ hs[h].pc = "idle"
    /\ \E method \in {"POST", "GET"}, device \in DeviceInputs,
          isArray \in BOOLEAN, students \in lists :
        LET s0 == [IdleHandler EXCEPT !.kind = "batch", !.n = hs[h].n + 1,
                       !.method = method, !.device = device,
                       !.isArray = isArray, !.students = students]
            rejection == BatchChecks(method, device, isArray, students)
        IN  /\ isArray \/ students = << >>
            /\ hs' = [hs EXCEPT ![h] =
                        IF rejection.status # 0
                        THEN [s0 EXCEPT !.pc = "responded", !.res = rejection]
                        ELSE BeginStudent([s0 EXCEPT !.i = 1])]
    /\ UNCHANGED libVars

BatchEnroll(h) == Enroll(h, StudentLists)

\* Step 1 ended: the photo store answered or the download failed.
Downloaded_IgnoreFailure(h) ==
    LET s == hs[h] IN
    /\ s.kind = "batch" /\ s.pc = "download"
    /\ \E ok \in BOOLEAN :
        /\ hs' = [hs EXCEPT ![h] =
                    [s EXCEPT !.result.steps.download = Step(ok, FALSE, None, NoResponse),
                              !.pc = "createUser"]]
        /\ hikRequest(h, s.device, "post", P_RECORD, ForUser(s.result.employeeNo))

Downloaded_NoContinue(h) ==
    LET s == hs[h] IN
    /\ s.kind = "batch" /\ s.pc = "download"
    /\ \E ok \in BOOLEAN :
        /\ hs' = [hs EXCEPT ![h] =
                    IF ok
                    THEN [s EXCEPT !.result.steps.download = Step(TRUE, FALSE, None, NoResponse),
                                   !.pc = "createUser"]
                    ELSE [s EXCEPT !.result.steps.download =
                                       Step(FALSE, FALSE, "download", NoResponse),
                                   !.result.success = "false",
                                   !.result.error = "Failed to download photo",
                                   !.pc = "createUser"]]
        /\ hikRequest(h, s.device, "post", P_RECORD, ForUser(s.result.employeeNo))

Downloaded(h) ==
    LET s == hs[h] IN
    /\ s.kind = "batch" /\ s.pc = "download"
    /\ \E ok \in BOOLEAN :
        IF ok
        THEN /\ hs' = [hs EXCEPT ![h] =
                        [s EXCEPT !.result.steps.download = Step(TRUE, FALSE, None, NoResponse),
                                  !.pc = "createUser"]]
             /\ hikRequest(h, s.device, "post", P_RECORD, ForUser(s.result.employeeNo))
        ELSE /\ hs' = [hs EXCEPT ![h] =
                        FailStudent([s EXCEPT !.result.steps.download =
                                                  Step(FALSE, FALSE, "download", NoResponse)],
                                    "Failed to download photo")]
             /\ UNCHANGED libVars

\* Step 2 ended: createUser returned.
UserCreated_NoAwait(h) ==
    LET s == hs[h]
        userResult == createUser(req[h])
        s1 == [s EXCEPT !.result.steps.createUser = userResult]
    IN
    /\ s.kind = "batch" /\ s.pc = "createUser"
    /\ IF ~userResult.ok
       THEN /\ hs' = [hs EXCEPT ![h] = FailStudent(s1, "Failed to create user on device")]
            /\ UNCHANGED libVars
       ELSE /\ hs' = [hs EXCEPT ![h] = [s1 EXCEPT !.pc = "uploadFace"]]
            /\ hikRequest(h, s.device, "put", P_FDSETUP, ForUser(s.result.employeeNo))

UserCreated_NoCatch(h) ==
    LET s == hs[h]
        userResult == createUser(req[h])
        s1 == [s EXCEPT !.result.steps.createUser = userResult]
    IN
    /\ s.kind = "batch" /\ s.pc = "createUser"
    /\ req[h].pc \in {"done", "failed"}
    /\ IF ~userResult.ok
       THEN /\ hs' = [hs EXCEPT ![h] =
                        PushAndContinue([s EXCEPT !.result.success = "false",
                                                  !.result.error = req[h].err.message])]
            /\ UNCHANGED libVars
       ELSE /\ hs' = [hs EXCEPT ![h] = [s1 EXCEPT !.pc = "uploadFace"]]
            /\ hikRequest(h, s.device, "put", P_FDSETUP, ForUser(s.result.employeeNo))

UserCreated(h) ==
    LET s == hs[h]
        userResult == createUser(req[h])
        s1 == [s EXCEPT !.result.steps.createUser = userResult]
    IN
    /\ s.kind = "batch" /\ s.pc = "createUser"
    /\ req[h].pc \in {"done", "failed"}
    /\ IF ~userResult.ok
       THEN /\ hs' = [hs EXCEPT ![h] = FailStudent(s1, "Failed to create user on device")]
            /\ UNCHANGED libVars
       ELSE /\ hs' = [hs EXCEPT ![h] = [s1 EXCEPT !.pc = "uploadFace"]]
            /\ hikRequest(h, s.device, "put", P_FDSETUP, ForUser(s.result.employeeNo))

\* Step 3 ended: uploadFaceBase64 returned.
FaceUploaded(h) ==
    LET s == hs[h]
        faceResult == uploadFaceBase64(req[h])
        s1 == [s EXCEPT !.result.steps.uploadFace = faceResult]
    IN
    /\ s.kind = "batch" /\ s.pc = "uploadFace"
    /\ req[h].pc \in {"done", "failed"}
    /\ hs' = [hs EXCEPT ![h] =
                IF ~faceResult.ok
                THEN FailStudent(s1, "Device rejected face image")
                ELSE PushAndContinue([s1 EXCEPT !.result.success = "true"])]
    /\ UNCHANGED libVars

InitHandler ==
    /\ InitLib
    /\ dev = [users |-> {}, faces |-> {}, nonces |-> {"4e6a41"}, unlisted |-> 0]
    /\ wire = NoWire
    /\ req = [p \in {Handler} |-> IdleReq]
    /\ hs = [p \in {Handler} |-> IdleHandler]

NextBatch ==
    \/ BatchEnroll(Handler)
    \/ Downloaded(Handler)
    \/ UserCreated(Handler)
    \/ FaceUploaded(Handler)
    \/ ProbeAnswered(Handler)
    \/ SendAuthenticated(Handler)
    \/ Answered(Handler)

SpecBatch == InitHandler /\ [][NextBatch]_vars

\* ---------------------------------------------------------------- delete
\* The first lines of the delete handler: lines 740-756.
DeleteChecks(method, device, employeeNo) ==
    IF method # "POST" THEN Res(405, FALSE, "Method not allowed", None)
    ELSE IF ~Truthy(device.ip) \/ ~Truthy(device.username) \/ ~Truthy(device.password)
    THEN Res(400, FALSE, "Missing device credentials", None)
    ELSE IF ~isAllowedDeviceIP(device.ip)
    THEN Res(400, FALSE, "Invalid device IP. Only private LAN addresses are allowed.", None)
    ELSE IF ~Truthy(employeeNo)
    THEN Res(400, FALSE, "Missing employeeNo", None)
    ELSE NoRes

\* POST /api/hikvision/delete arrives: lines 739-769
Delete(h) ==
    /\ \/ hs[h].pc = "idle"
       \/ hs[h].pc = "responded" /\ hs[h].kind = "delete"
    /\ hs[h].n < MaxInvocations
    /\ \E method \in {"POST", "GET"}, device \in DeviceInputs,
          employeeNo \in {employeeNoFromName("A"), ""} :
        LET s0 == [IdleHandler EXCEPT !.kind = "delete", !.n = hs[h].n + 1,
                       !.method = method, !.device = device,
                       !.employeeNo = employeeNo]
            rejection == DeleteChecks(method, device, employeeNo)
        IN  IF rejection.status # 0
            THEN /\ hs' = [hs EXCEPT ![h] = [s0 EXCEPT !.pc = "responded", !.res = rejection]]
                 /\ UNCHANGED libVars
            ELSE /\ hs' = [hs EXCEPT ![h] = [s0 EXCEPT !.pc = "faceDelete"]]
                 /\ hikRequest(h, device, "put", P_FDDELETE, ForUser(employeeNo))

\* Step 1 ended (its failure is caught and ignored); step 2 starts: 770-783
FaceDeleted_Fatal(h) ==
    LET s == hs[h] IN
    /\ s.kind = "delete" /\ s.pc = "faceDelete"
    /\ req[h].pc \in {"done", "failed"}
    /\ IF req[h].pc = "failed"
       THEN /\ hs' = [hs EXCEPT ![h] =
                        [s EXCEPT !.pc = "responded",
                                  !.res = Res(500, FALSE, "Failed to delete user", None)]]
            /\ UNCHANGED libVars
       ELSE /\ hs' = [hs EXCEPT ![h] = [s EXCEPT !.faceDeleted = TRUE, !.pc = "userDelete"]]
            /\ hikRequest(h, s.device, "put", P_DELETE, ForUser(s.employeeNo))

FaceDeleted(h) ==
    LET s == hs[h] IN
    /\ s.kind = "delete" /\ s.pc = "faceDelete"
    /\ req[h].pc \in {"done", "failed"}
    /\ hs' = [hs EXCEPT ![h] = [s EXCEPT !.faceDeleted = (req[h].pc = "done"),
                                          !.pc = "userDelete"]]
    /\ hikRequest(h, s.device, "put", P_DELETE, ForUser(s.employeeNo))

\* The catch block of the delete handler: lines 799-819
DeleteCatch_Strict(err) ==
    Res(500, FALSE, "Failed to delete user", None)

DeleteCatch(err) ==
    LET sub == Or(Or(err.response.data.subStatusCode,
                     err.response.data.StatusString.subStatusCode), "")
        errMsg == Or(err.response.data.errorMsg, "")
    IN  IF sub = "employeeNoNotExist" \/ sub = "deviceUserNotExist"
           \/ (sub = "badJsonContent" /\ errMsg = "employeeNo")
        THEN Res(200, TRUE, None, "was already removed")
        ELSE Res(500, FALSE, "Failed to delete user", None)

\* Step 2 ended: lines 785-819
UserDeleted_AnyStatusCode(h) ==
    LET s == hs[h] IN
    /\ s.kind = "delete" /\ s.pc = "userDelete"
    /\ req[h].pc \in {"done", "failed"}
    /\ hs' = [hs EXCEPT ![h] =
                [s EXCEPT !.pc = "responded",
                          !.userDelete = Step(req[h].pc = "done", FALSE, req[h].err.message,
                                              FinalResponse(req[h])),
                          !.res = IF req[h].pc = "done"
                                  THEN Res(200, TRUE, None, "removed from device")
                                  ELSE DeleteCatch(req[h].err)]]
    /\ UNCHANGED libVars

UserDeleted(h) ==
    LET s == hs[h] IN
    /\ s.kind = "delete" /\ s.pc = "userDelete"
    /\ req[h].pc \in {"done", "failed"}
    /\ hs' = [hs EXCEPT ![h] =
                [s EXCEPT !.pc = "responded",
                          !.userDelete = Step(req[h].pc = "done", FALSE, req[h].err.message,
                                              FinalResponse(req[h])),
                          !.res = IF req[h].pc = "done"
                                  THEN IF req[h].resp.data.statusCode = 1
                                       THEN Res(200, TRUE, None, "removed from device")
                                       ELSE Res(502, FALSE, "Device rejected delete request", None)
                                  ELSE DeleteCatch(req[h].err)]]
    /\ UNCHANGED libVars

InitDelete ==
    /\ InitLib
    /\ \E users \in SUBSET {employeeNoFromName("A")} :
          dev = [users |-> users, faces |-> users, nonces |-> {"4e6a41"}, unlisted |-> 0]
    /\ wire = NoWire
    /\ req = [p \in {Handler} |-> IdleReq]
    /\ hs = [p \in {Handler} |-> IdleHandler]

NextDelete ==
    \/ Delete(Handler)
    \/ FaceDeleted(Handler)
    \/ UserDeleted(Handler)
    \/ ProbeAnswered(Handler)
    \/ SendAuthenticated(Handler)
    \/ Answered(Handler)

SpecDelete == InitDelete /\ [][NextDelete]_vars

\* ----------------------------------------------------------------- users
PageSize == 30

\* The first lines of the users handler: users.js lines 16-28.
UsersChecks(method, device) ==
    IF method # "POST" THEN Res(405, FALSE, "Method not allowed", None)
    ELSE IF ~Truthy(device.ip) \/ ~Truthy(device.username) \/ ~Truthy(device.password)
    THEN Res(400, FALSE, "Missing device credentials", None)
    ELSE IF ~isAllowedDeviceIP(device.ip)
    THEN Res(400, FALSE, "Invalid device IP. Only private LAN addresses are allowed.", None)
    ELSE NoRes

SearchCond(pos, maxResults) ==
    [NoData EXCEPT !.searchResultPosition = pos, !.maxResults = maxResults]

\* POST /api/hikvision/users arrives: users.js lines 15-44
Users(h) ==
    /\ hs[h].pc = "idle"
    /\ \E method \in {"POST", "GET"}, device \in DeviceInputs :
        LET s0 == [IdleHandler EXCEPT !.kind = "users", !.n = hs[h].n + 1,
                       !.method = method, !.device = device]
            rejection == UsersChecks(method, device)
        IN  IF rejection.status # 0
            THEN /\ hs' = [hs EXCEPT ![h] = [s0 EXCEPT !.pc = "responded", !.res = rejection]]
                 /\ UNCHANGED libVars
            ELSE /\ hs' = [hs EXCEPT ![h] = [s0 EXCEPT !.pc = "page"]]
                 /\ hikRequest(h, device, "post", P_SEARCH, SearchCond(0, PageSize))

\* A page of the directory arrived, or its request failed: users.js 44-63,
\* 162-168
UsersPageDone_KeepLastPage(h) ==
    LET s == hs[h]
        userList == req[h].resp.data.UserInfoSearch.UserInfo
        total == req[h].resp.data.UserInfoSearch.totalMatches
        pos == s.pos + Len(userList)
        s1 == [s EXCEPT !.allUsers = userList, !.pos = pos]
    IN
    /\ s.kind = "users" /\ s.pc = "page"
    /\ req[h].pc \in {"done", "failed"}
    /\ IF req[h].pc = "failed"
       THEN /\ hs' = [hs EXCEPT ![h] =
                        [s EXCEPT !.failures = Lost(s, req[h]), !.pc = "responded",
                                  !.res = Res(500, FALSE, "Failed to fetch device users", None)]]
            /\ UNCHANGED libVars
       ELSE IF pos >= total \/ Len(userList) = 0
       THEN /\ hs' = [hs EXCEPT ![h] = [s1 EXCEPT !.pc = "firestore"]]
            /\ UNCHANGED libVars
       ELSE /\ hs' = [hs EXCEPT ![h] = s1]
            /\ hikRequest(h, s.device, "post", P_SEARCH, SearchCond(pos, PageSize))

UsersPageDone_NoEmptyCheck(h) ==
    LET s == hs[h]
        userList == req[h].resp.data.UserInfoSearch.UserInfo
        total == req[h].resp.data.UserInfoSearch.totalMatches
        pos == s.pos + Len(userList)
        s1 == [s EXCEPT !.allUsers = @ \o userList, !.pos = pos]
    IN
    /\ s.kind = "users" /\ s.pc = "page"
    /\ req[h].pc \in {"done", "failed"}
    /\ IF req[h].pc = "failed"
       THEN /\ hs' = [hs EXCEPT ![h] =
                        [s EXCEPT !.failures = Lost(s, req[h]), !.pc = "responded",
                                  !.res = Res(500, FALSE, "Failed to fetch device users", None)]]
            /\ UNCHANGED libVars
       ELSE IF pos >= total
       THEN /\ hs' = [hs EXCEPT ![h] = [s1 EXCEPT !.pc = "firestore"]]
            /\ UNCHANGED libVars
       ELSE /\ hs' = [hs EXCEPT ![h] = s1]
            /\ hikRequest(h, s.device, "post", P_SEARCH, SearchCond(pos, PageSize))

UsersPageDone(h) ==
    LET s == hs[h]
        userList == req[h].resp.data.UserInfoSearch.UserInfo
        total == req[h].resp.data.UserInfoSearch.totalMatches
        pos == s.pos + Len(userList)
        s1 == [s EXCEPT !.allUsers = @ \o userList, !.pos = pos]
    IN
    /\ s.kind = "users" /\ s.pc = "page"
    /\ req[h].pc \in {"done", "failed"}
    /\ IF req[h].pc = "failed"
       THEN /\ hs' = [hs EXCEPT ![h] =
                        [s EXCEPT !.failures = Lost(s, req[h]), !.pc = "responded",
                                  !.res = Res(500, FALSE, "Failed to fetch device users", None)]]
            /\ UNCHANGED libVars
       ELSE IF pos >= total \/ Len(userList) = 0
       THEN /\ hs' = [hs EXCEPT ![h] = [s1 EXCEPT !.pc = "firestore"]]
            /\ UNCHANGED libVars
       ELSE /\ hs' = [hs EXCEPT ![h] = s1]
            /\ hikRequest(h, s.device, "post", P_SEARCH, SearchCond(pos, PageSize))

\* Firestore answered or failed (both reads are non-fatal); the device-info
\* request starts: users.js lines 65-129
UsersEnriched(h) ==
    LET s == hs[h] IN
    /\ s.kind = "users" /\ s.pc = "firestore"
    /\ hs' = [hs EXCEPT ![h] = [s EXCEPT !.pc = "info"]]
    /\ hikRequest(h, s.device, "get", P_INFO, NoData)

\* users.js lines 130-148
UsersInfoDone(h) ==
    LET s == hs[h] IN
    /\ s.kind = "users" /\ s.pc = "info"
    /\ req[h].pc \in {"done", "failed"}
    /\ hs' = [hs EXCEPT ![h] =
                [s EXCEPT !.failures = Lost(s, req[h]), !.pc = "cap",
                          !.deviceInfo = IF req[h].pc = "done" THEN "info" ELSE "error"]]
    /\ hikRequest(h, s.device, "get", P_CAP, NoData)

\* capacity = {maxUsers: data?.UserInfoCap?.maxUserNum || 0, ...}, or {} on a throw
Capacity(r) ==
    IF r.pc = "done"
    THEN [present |-> TRUE,
          maxUsers |-> r.resp.data.UserInfoCap.maxUserNum,
          maxFaces |-> r.resp.data.UserInfoCap.maxFaceNum]
    ELSE NoCapacity

\* users.js lines 149-161
UsersCapDone(h) ==
    LET s == hs[h] IN
    /\ s.kind = "users" /\ s.pc = "cap"
    /\ req[h].pc \in {"done", "failed"}
    /\ hs' = [hs EXCEPT ![h] =
                [s EXCEPT !.failures = Lost(s, req[h]), !.pc = "responded", !.capacity = Capacity(req[h]),
                          !.res = [Res(200, TRUE, None, None) EXCEPT
                                      !.total = Len(s.allUsers)]]]
    /\ UNCHANGED libVars

\* One request to the users handler, against a device with t users enrolled.
InitUsers ==
    /\ InitLib
    /\ \E t \in 0..MaxDirectory :
          dev = [users |-> Enrolled(t), faces |-> {}, nonces |-> {"4e6a41"}, unlisted |-> 0]
    /\ wire = NoWire
    /\ req = [p \in {Handler} |-> IdleReq]
    /\ hs = [p \in {Handler} |-> IdleHandler]

NextUsers ==
    \/ Users(Handler)
    \/ UsersPageDone(Handler)
    \/ UsersEnriched(Handler)
    \/ UsersInfoDone(Handler)
    \/ UsersCapDone(Handler)
    \/ ProbeAnswered(Handler)
    \/ SendAuthenticated(Handler)
    \/ Answered(Handler)

SpecUsers == InitUsers /\ [][NextUsers]_vars

\* --------------------------------------------------------------- connect
\* The first lines of the connect handler: lines 837-849.
ConnectChecks(method, device) ==
    IF method # "POST" THEN Res(405, FALSE, "Method not allowed", None)
    ELSE IF ~Truthy(device.ip) \/ ~Truthy(device.username) \/ ~Truthy(device.password)
    THEN Res(400, FALSE, "Missing device credentials (ip, username, password)", None)
    ELSE IF ~isAllowedDeviceIP(device.ip)
    THEN Res(400, FALSE, "Invalid device IP. Only private LAN addresses are allowed.", None)
    ELSE NoRes

\* POST /api/hikvision/connect arrives: lines 836-860
Connect(h) ==
    /\ hs[h].pc = "idle"
    /\ \E method \in {"POST", "GET"}, device \in DeviceInputs :
        LET s0 == [IdleHandler EXCEPT !.kind = "connect", !.n = hs[h].n + 1,
                       !.method = method, !.device = device]
            rejection == ConnectChecks(method, device)
        IN  IF rejection.status # 0
            THEN /\ hs' = [hs EXCEPT ![h] = [s0 EXCEPT !.pc = "responded", !.res = rejection]]
                 /\ UNCHANGED libVars
            ELSE /\ hs' = [hs EXCEPT ![h] = [s0 EXCEPT !.pc = "info"]]
                 /\ hikRequest(h, device, "get", P_INFO, NoData)

\* The device-info request ended: lines 861-899
ConnectInfoDone_NoEarlyReturn(h) ==
    LET s == hs[h]
    IN
    /\ s.kind = "connect" /\ s.pc = "info"
    /\ req[h].pc \in {"done", "failed"}
    /\ hs' = [hs EXCEPT ![h] =
                [s EXCEPT !.failures = Lost(s, req[h]), !.pc = "search",
                          !.deviceInfo = IF req[h].pc = "done" THEN "info" ELSE "error"]]
    /\ hikRequest(h, s.device, "post", P_SEARCH, SearchCond(0, 100))

ConnectInfoDone(h) ==
    LET s == hs[h]
        e == req[h].err
    IN
    /\ s.kind = "connect" /\ s.pc = "info"
    /\ req[h].pc \in {"done", "failed"}
    /\ IF req[h].pc = "failed" /\ e.code \in {"ECONNREFUSED", "ETIMEDOUT", "ECONNABORTED"}
       THEN /\ hs' = [hs EXCEPT ![h] =
                        [s EXCEPT !.failures = Lost(s, req[h]), !.pc = "responded",
                                  !.res = Res(502, FALSE, "Cannot reach device", None)]]
            /\ UNCHANGED libVars
       ELSE IF req[h].pc = "failed" /\ e.response.status = 401
       THEN /\ hs' = [hs EXCEPT ![h] =
                        [s EXCEPT !.failures = Lost(s, req[h]), !.pc = "responded",
                                  !.res = Res(401, FALSE, "Authentication failed",
                                              "Invalid username or password")]]
            /\ UNCHANGED libVars
       ELSE /\ hs' = [hs EXCEPT ![h] =
                        [s EXCEPT !.failures = Lost(s, req[h]), !.pc = "search",
                                  !.deviceInfo = IF req[h].pc = "done" THEN "info" ELSE "error"]]
            /\ hikRequest(h, s.device, "post", P_SEARCH, SearchCond(0, 100))

\* The user search ended: lines 900-911
ConnectSearchDone(h) ==
    LET s == hs[h]
        info == req[h].resp.data.UserInfoSearch
    IN
    /\ s.kind = "connect" /\ s.pc = "search"
    /\ req[h].pc \in {"done", "failed"}
    /\ hs' = [hs EXCEPT ![h] =
                IF req[h].pc = "done"
                THEN [s EXCEPT !.failures = Lost(s, req[h]), !.pc = "count", !.allUsers = info.UserInfo,
                               !.totalUsers = IF info.totalMatches # 0 THEN info.totalMatches
                                              ELSE Len(info.UserInfo)]
                ELSE [s EXCEPT !.failures = Lost(s, req[h]), !.pc = "count"]]
    /\ hikRequest(h, s.device, "get", P_COUNT, NoData)

\* The face count ended: lines 912-923
ConnectCountDone(h) ==
    LET s == hs[h] IN
    /\ s.kind = "connect" /\ s.pc = "count"
    /\ req[h].pc \in {"done", "failed"}
    /\ hs' = [hs EXCEPT ![h] =
                [s EXCEPT !.failures = Lost(s, req[h]), !.pc = "cap",
                          !.totalFaces = IF req[h].pc = "done"
                                         THEN req[h].resp.data.recordDataNumber ELSE 0]]
    /\ hikRequest(h, s.device, "get", P_CAP, NoData)

\* The capabilities query ended: lines 924-943
ConnectCapDone_Fatal(h) ==
    LET s == hs[h] IN
    /\ s.kind = "connect" /\ s.pc = "cap"
    /\ req[h].pc \in {"done", "failed"}
    /\ hs' = [hs EXCEPT ![h] =
                IF req[h].pc = "failed"
                THEN [s EXCEPT !.failures = Lost(s, req[h]), !.pc = "responded",
                               !.res = Res(500, FALSE, "Failed to connect to device", None)]
                ELSE [s EXCEPT !.failures = Lost(s, req[h]), !.pc = "responded", !.capacity = Capacity(req[h]),
                               !.res = [Res(200, TRUE, None, None) EXCEPT
                                           !.total = s.totalUsers]]]
    /\ UNCHANGED libVars

ConnectCapDone(h) ==
    LET s == hs[h] IN
    /\ s.kind = "connect" /\ s.pc = "cap"
    /\ req[h].pc \in {"done", "failed"}
    /\ hs' = [hs EXCEPT ![h] =
                [s EXCEPT !.failures = Lost(s, req[h]), !.pc = "responded", !.capacity = Capacity(req[h]),
                          !.res = [Res(200, TRUE, None, None) EXCEPT
                                      !.total = s.totalUsers]]]
    /\ UNCHANGED libVars

\* One request to the connect or the users handler, against a device with t
\* users enrolled.
NextReaders ==
    \/ NextUsers
    \/ Connect(Handler)
    \/ ConnectInfoDone(Handler)
    \/ ConnectSearchDone(Handler)
    \/ ConnectCountDone(Handler)
    \/ ConnectCapDone(Handler)

SpecReaders == InitUsers /\ [][NextReaders]_vars

\* ------------------------------------------------- the four entry points
\* One request to any of the four handlers, on a process whose cache is
\* empty or holds a challenge of the device from earlier requests.
InitGateway ==
    /\ \/ challengeCache = << >> /\ ncCounters = << >>
       \/ /\ challengeCache = PutChallenge(<< >>, DeviceIP,
                                 [realm |-> "DS-K1T341AMF", nonce |-> "4e6a41", qop |-> "auth"])
          /\ ncCounters = Increment(<< >>, CounterKey("DS-K1T341AMF", "4e6a41"))
    /\ dev = [users |-> {}, faces |-> {}, nonces |-> {"4e6a41"}, unlisted |-> 0]
    /\ wire = NoWire
    /\ req = [p \in {Handler} |-> IdleReq]
    /\ hs = [p \in {Handler} |-> IdleHandler]

NextGateway ==
    \/ BatchEnroll(Handler)
    \/ Downloaded(Handler)
    \/ UserCreated(Handler)
    \/ FaceUploaded(Handler)
    \/ Delete(Handler)
    \/ FaceDeleted(Handler)
    \/ UserDeleted(Handler)
    \/ Users(Handler)
    \/ UsersPageDone(Handler)
    \/ UsersEnriched(Handler)
    \/ UsersInfoDone(Handler)
    \/ UsersCapDone(Handler)
    \/ Connect(Handler)
    \/ ConnectInfoDone(Handler)
    \/ ConnectSearchDone(Handler)
    \/ ConnectCountDone(Handler)
    \/ ConnectCapDone(Handler)
    \/ ProbeAnswered(Handler)
    \/ SendAuthenticated(Handler)
    \/ Answered(Handler)

SpecGateway == InitGateway /\ [][NextGateway]_vars

\* ---------------------------------------------------- device manager page
\* The page component of the portal, as one more process of hs: its React
\* state (users, selected, deleting, deleteLog, error), the position of the
\* running handleBulkDelete (pc, toDelete, k), the single-row deletes awaiting
\* their answer (singles) and, for the record only, the delete calls the bulk
\* delete posted with their outcomes (posted, outcomes) and whether anything
\* else changed the log while it ran (meddled); n counts the single-row
\* deletes started.
DeviceManager == "page"

\* users.filter(pred), users.filter((u) => selected.has(u.employeeNo))
Filter(users, keep) == SelectSeq(users, LAMBDA u : u \in keep)

Elements(seq) == {seq[k] : k \in 1..Len(seq)}

LogEntry(name, success) == [name |-> name, success |-> success]

IdlePage ==
    [kind |-> "page", pc |-> "idle",
     users |-> << >>, selected |-> {}, deleting |-> {}, deleteLog |-> << >>,
     error |-> None, toDelete |-> << >>, k |-> 0, singles |-> {},
     posted |-> << >>, outcomes |-> << >>, meddled |-> FALSE, n |-> 0]

\* handleBulkDelete up to its first await: part_003 lines 746-759.  The
\* button is disabled while deleting is not empty (line 969).
handleBulkDelete(p) ==
    LET s == hs[p]
        toDelete == Filter(s.users, s.selected)
    IN
    /\ s.pc \in {"idle", "done"}
    /\ s.deleting = {}
    /\ Len(toDelete) # 0
    /\ \E confirmed \in BOOLEAN :
        hs' = [hs EXCEPT ![p] =
                 IF ~confirmed THEN s
                 ELSE [s EXCEPT !.pc = "bulk", !.toDelete = toDelete, !.k = 1,
                                !.deleteLog = << >>,
                                !.deleting = @ \cup {toDelete[1]},
                                !.posted = <<toDelete[1]>>, !.outcomes = << >>,
                                !.meddled = (s.singles # {})]]
    /\ UNCHANGED libVars

\* The delete call of the bulk delete was answered (2xx) or failed; the
\* loop goes on to the next user or ends: lines 760-773.
BulkDeleteAnswered_StopOnFailure(p) ==
    LET s == hs[p]
        user == s.toDelete[s.k]
    IN
    /\ s.pc = "bulk"
    /\ \E ok \in BOOLEAN :
        LET s1 == [s EXCEPT !.users = IF ok THEN Filter(@, Elements(@) \ {user}) ELSE @,
                            !.deleteLog = Append(@, LogEntry(user, ok)),
                            !.outcomes = Append(@, ok),
                            !.deleting = @ \ {user}]
        IN  hs' = [hs EXCEPT ![p] =
                     IF s.k < Len(s.toDelete) /\ ok
                     THEN [s1 EXCEPT !.k = @ + 1,
                                     !.deleting = @ \cup {s.toDelete[s.k + 1]},
                                     !.posted = Append(@, s.toDelete[s.k + 1])]
                     ELSE [s1 EXCEPT !.pc = "done", !.selected = {}]]
    /\ UNCHANGED libVars

BulkDeleteAnswered(p) ==
    LET s == hs[p]
        user == s.toDelete[s.k]
    IN
    /\ s.pc = "bulk"
    /\ \E ok \in BOOLEAN :
        LET s1 == [s EXCEPT !.users = IF ok THEN Filter(@, Elements(@) \ {user}) ELSE @,
                            !.deleteLog = Append(@, LogEntry(user, ok)),
                            !.outcomes = Append(@, ok),
                            !.deleting = @ \ {user}]
        IN  hs' = [hs EXCEPT ![p] =
                     IF s.k < Len(s.toDelete)
                     THEN [s1 EXCEPT !.k = @ + 1,
                                     !.deleting = @ \cup {s.toDelete[s.k + 1]},
                                     !.posted = Append(@, s.toDelete[s.k + 1])]
                     ELSE [s1 EXCEPT !.pc = "done", !.selected = {}]]
    /\ UNCHANGED libVars

\* handleDelete(user) up to its await: lines 715-724.  The row's button is
\* disabled while the user is in deleting (line 1059).
handleDelete(p) ==
    LET s == hs[p] IN
    /\ s.n < MaxSingles
    /\ \E user \in Elements(s.users) \ s.deleting, confirmed \in BOOLEAN :
        hs' = [hs EXCEPT ![p] =
                 IF ~confirmed THEN s
                 ELSE [s EXCEPT !.deleting = @ \cup {user}, !.singles = @ \cup {user},
                                !.n = @ + 1]]
    /\ UNCHANGED libVars

\* The delete call of a single-row delete was answered or failed: 725-743
SingleDeleteAnswered(p) ==
    LET s == hs[p] IN
    /\ \E user \in s.singles, ok \in BOOLEAN :
        hs' = [hs EXCEPT ![p] =
                 [s EXCEPT !.users = IF ok THEN Filter(@, Elements(@) \ {user}) ELSE @,
                           !.selected = IF ok THEN @ \ {user} ELSE @,
                           !.error = IF ok THEN @ ELSE "Failed to delete",
                           !.deleteLog = Append(@, LogEntry(user, ok)),
                           !.deleting = @ \ {user},
                           !.singles = @ \ {user},
                           !.meddled = (@ \/ s.pc = "bulk")]]
    /\ UNCHANGED libVars

\* The Clear button of the log, shown while the log is not empty: 977-984
ClearLog(p) ==
    LET s == hs[p] IN
    /\ Len(s.deleteLog) > 0
    /\ hs' = [hs EXCEPT ![p] = [s EXCEPT !.deleteLog = << >>,
                                         !.meddled = (@ \/ s.pc = "bulk")]]
    /\ UNCHANGED libVars

\* The page is connected and lists the device's users, some of them ticked.
InitPage ==
    /\ InitLib
    /\ dev = [users |-> Enrolled(MaxListed), faces |-> {}, nonces |-> {"4e6a41"}, unlisted |-> 0]
    /\ wire = NoWire
    /\ req = [p \in {DeviceManager} |-> IdleReq]
    /\ \E selected \in SUBSET Enrolled(MaxListed) :
          hs = [p \in {DeviceManager} |->
                  [IdlePage EXCEPT !.users = SubSeq(Roster, 1, MaxListed),
                                   !.selected = selected]]

NextPage ==
    \/ handleBulkDelete(DeviceManager)
    \/ BulkDeleteAnswered(DeviceManager)
    \/ handleDelete(DeviceManager)
    \/ SingleDeleteAnswered(DeviceManager)
    \/ ClearLog(DeviceManager)

SpecPage == InitPage /\ [][NextPage]_vars

\* ======================================================= Digest client
Requests == 1..Len(wire)
IsAuth(i) == wire[i].kind = "auth"
IsProbe(i) == wire[i].kind = "probe"
SameNonce(i, j) == wire[i].realm = wire[j].realm /\ wire[i].nonce = wire[j].nonce

\* No authenticated request has been answered 401 so far.
No401 == \A i \in Requests : ~wire[i].refused

ProbeFailures ==
    {"network", "Request failed with status code", "Device did not return a Digest challenge"}

\* C1 as stated: a call that started with a cached challenge and whose first
\* authenticated request was answered 401 ends having issued exactly one
\* probe and exactly two authenticated requests, and fails with
\* 'Authentication failed' when the second one is answered 401 too.
C1_AlwaysSecondRequest ==
    \A c \in Callers :
        LET r == req[c] IN
        (r.cachedAtStart /\ r.pc \in {"done", "failed"}
            /\ Len(r.answers) >= 1 /\ r.answers[1] = 401)
        => /\ r.probes = 1
           /\ r.auths = 2
           /\ (Len(r.answers) >= 2 /\ r.answers[2] = 401 =>
                  r.pc = "failed" /\ r.err.message = "Authentication failed")

\* C1 amended: after a first 401 the call has issued exactly one probe; it
\* sends exactly one more authenticated request when that probe returns a
\* Digest challenge and none when the probe fails; a second 401 ends the call
\* with 'Authentication failed', and there is never a third authenticated
\* request.
C1_RetryOnce ==
    \A c \in Callers :
        LET r == req[c]
            probeFailed == r.pc = "failed" /\ Len(r.answers) = 1
        IN
        (r.cachedAtStart /\ Len(r.answers) >= 1 /\ r.answers[1] = 401)
        => /\ r.probes = 1
           /\ Len(r.answers) <= 2
           /\ r.auths = (IF r.pc \in {"probing", "challenged"} \/ probeFailed THEN 1 ELSE 2)
           /\ (probeFailed => r.err.message \in ProbeFailures)
           /\ (r.pc \in {"done", "failed"} /\ ~probeFailed => r.auths = 2)
           /\ (Len(r.answers) = 2 /\ r.answers[2] = 401 =>
                  r.pc = "failed" /\ r.err.message = "Authentication failed")

C1_Witness ==
    \E c \in Callers :
        /\ req[c].cachedAtStart
        /\ req[c].answers = <<401, 401>>
        /\ req[c].pc = "failed"
        /\ req[c].probes = 1 /\ req[c].auths = 2

RECURSIVE Pow10(_)
Pow10(e) == IF e = 0 THEN 1 ELSE 10 * Pow10(e - 1)

\* k written with exactly eight decimal digits
EightDigits(k) ==
    LET d(i) == Digit[((k \div Pow10(8 - i)) % 10) + 1]
    IN  d(1) \o d(2) \o d(3) \o d(4) \o d(5) \o d(6) \o d(7) \o d(8)

\* The number of authenticated requests up to the i-th that were signed with
\* the (realm, nonce) of the i-th.
Rank(i) == Cardinality({j \in 1..i : IsAuth(j) /\ SameNonce(i, j)})

\* C2: the k-th authenticated request signed with a (realm, nonce) carries
\* nc = k zero-padded to eight digits: 00000001, 00000002, ... with no value
\* skipped or repeated.
C2_NcCountsRequests ==
    \A i \in Requests : IsAuth(i) => wire[i].nc = EightDigits(Rank(i))

C2_Witness ==
    \E i, j \in Requests :
        /\ IsAuth(i) /\ IsAuth(j) /\ SameNonce(i, j)
        /\ wire[i].call = 1 /\ wire[i].nc = "00000001"
        /\ wire[j].call = 2 /\ wire[j].nc = "00000002"

\* C3: no two authenticated requests carry the same (realm, nonce, nc).
C3_NcNeverReused ==
    \A i, j \in Requests :
        (IsAuth(i) /\ IsAuth(j) /\ i # j /\ SameNonce(i, j)) => wire[i].nc # wire[j].nc

\* Two callers have requests signed with the same nonce in flight at once.
C3_Witness ==
    /\ \A c \in Callers : req[c].pc = "sent"
    /\ \E c1, c2 \in Callers :
        /\ c1 # c2
        /\ req[c1].challenge = req[c2].challenge
        /\ wire[InFlight(c1)].nc # wire[InFlight(c2)].nc

\* C4 as stated: while no authenticated request has been answered 401, only
\* the first call has issued a probe.
C4_OnlyFirstCallProbes ==
    No401 => \A i \in Requests : IsProbe(i) => wire[i].call = 1

\* C4 amended: while no authenticated request has been answered 401, a call
\* issues a probe only if no earlier call got a challenge from its probe
\* (and so sent an authenticated request); every call after the first
\* successful probe reuses the cached challenge and issues no probe.
C4_ProbeUntilChallenged ==
    No401 =>
        \A i, j \in Requests :
            (IsProbe(i) /\ IsProbe(j) /\ i < j)
            => /\ wire[i].call < wire[j].call
               /\ \A k \in Requests : ~(IsAuth(k) /\ wire[k].call = wire[i].call)

C4_Witness ==
    /\ No401
    /\ \E i \in Requests : IsProbe(i) /\ wire[i].call = 2
    /\ \E k \in Requests : IsAuth(k) /\ wire[k].call = 2
    /\ req[SeqCaller].no = 3 /\ req[SeqCaller].pc = "done"
    /\ req[SeqCaller].cachedAtStart /\ req[SeqCaller].probes = 0

\* ======================================================= device address
\* The step in which a handler is entered with a device address that
\* isAllowedDeviceIP turns down.
EntersWithRejectedAddress ==
    /\ hs'[Handler].n = hs[Handler].n + 1
    /\ hs'[Handler].method = "POST"
    /\ Truthy(hs'[Handler].device.ip)
    /\ ~isAllowedDeviceIP(hs'[Handler].device.ip)

\* C5: in the connect, users, delete and batch-enroll handlers no request,
\* probe or authenticated, goes to an address for which isAllowedDeviceIP is
\* false, and an invocation with such an address is answered 400 in the step
\* it arrives, with the challenge cache, the nonce counters and the wire
\* left as they were.
C5_OnlyAllowedAddresses ==
    /\ [](\A i \in Requests : isAllowedDeviceIP(wire[i].ip))
    /\ [][EntersWithRejectedAddress =>
            /\ hs'[Handler].pc = "responded"
            /\ hs'[Handler].res.status = 400
            /\ UNCHANGED <<challengeCache, ncCounters, wire, req>>]_vars

\* A well-formed request for a public address was answered 400 while the
\* cache held a challenge and a counter from earlier requests.
C5_Witness ==
    /\ hs[Handler].pc = "responded"
    /\ hs[Handler].kind \in {"batch", "delete", "users", "connect"}
    /\ hs[Handler].device.ip = PublicIP
    /\ Truthy(hs[Handler].device.password)
    /\ hs[Handler].res.status = 400
    /\ hs[Handler].res.error = "Invalid device IP. Only private LAN addresses are allowed."
    /\ Cached(challengeCache, DeviceIP)
    /\ DOMAIN ncCounters # {}
    /\ wire = NoWire

\* =================================================== batch enrollment
\* The results recorded so far and the one in the making
Recorded == {hs[Handler].results[k] : k \in 1..Len(hs[Handler].results)}
InTheMaking == IF hs[Handler].pc \in {"download", "createUser", "uploadFace"}
               THEN {hs[Handler].result} ELSE {}

BatchResponded == hs[Handler].kind = "batch" /\ hs[Handler].pc = "responded"

BatchEnded == hs[Handler].kind = "batch" /\ hs[Handler].pc \in {"responded", "threw"}

\* C6: a batch of N >= 1 students that passed the entry checks ends with a
\* 200 response holding exactly N results, result k being student k's,
\* whatever failed for the students before it.
C6_OneResultPerStudent ==
    LET s == hs[Handler] IN
    (BatchEnded /\ BatchChecks(s.method, s.device, s.isArray, s.students) = NoRes)
    => /\ s.res.status = 200
       /\ Len(s.results) = Len(s.students)
       /\ \A k \in 1..Len(s.students) :
            /\ s.results[k].studentName = s.students[k]
            /\ s.results[k].success \in {"true", "false"}

\* C7: createUser runs only after a successful download, uploadFace only
\* after createUser reported ok, nothing runs after a failed step, and a
\* recorded result has success true exactly when all three steps were ok.
C7_StepsInOrder ==
    /\ \A r \in Recorded \cup InTheMaking :
        /\ r.steps.createUser.present => (r.steps.download.present /\ r.steps.download.ok)
        /\ r.steps.uploadFace.present => (r.steps.createUser.present /\ r.steps.createUser.ok)
    /\ \A r \in Recorded :
        r.success = "true" <=>
            /\ r.steps.download.present /\ r.steps.download.ok
            /\ r.steps.createUser.present /\ r.steps.createUser.ok
            /\ r.steps.uploadFace.present /\ r.steps.uploadFace.ok
    /\ hs[Handler].pc = "createUser" =>
            /\ hs[Handler].result.steps.download.ok
            /\ req[Handler].apiPath = P_RECORD
    /\ hs[Handler].pc = "uploadFace" =>
            /\ hs[Handler].result.steps.createUser.ok
            /\ req[Handler].apiPath = P_FDSETUP
    /\ hs[Handler].pc = "download" => req[Handler].pc \in {"idle", "done", "failed"}

C7_Witness ==
    LET s == hs[Handler] IN
    /\ BatchResponded /\ Len(s.results) = 2
    /\ s.results[1].steps.download.present /\ ~s.results[1].steps.download.ok
    /\ ~s.results[1].steps.createUser.present
    /\ s.results[2].success = "true" /\ s.results[2].steps.uploadFace.ok

\* The device turned the face image down: an HTTP error status, or a body
\* whose statusCode is not 1.
FaceRejected(step) ==
    /\ step.present
    /\ \/ step.error = None /\ step.reply.data.statusCode # 1
       \/ /\ step.error \in {"ISAPI returned", "Request failed with status code"}
          /\ step.reply.status >= 400

\* C8: a student whose face image the device rejected is recorded with
\* success false and the error 'Device rejected face image', and counts as
\* failed in the summary.
C8_RejectedFaceFails ==
    /\ \A r \in Recorded :
        FaceRejected(r.steps.uploadFace)
        => r.success = "false" /\ r.error = "Device rejected face image"
    /\ BatchResponded =>
        hs[Handler].res.failCount >=
            Cardinality({k \in 1..Len(hs[Handler].results) :
                            FaceRejected(hs[Handler].results[k].steps.uploadFace)})

AlreadyExistCodes == {"deviceUserAlreadyExist", "employeeNoAlreadyExist"}

\* The device's user service created the user, or refused a repeat.
CreationAccepted(step) ==
    \/ step.error = None /\ step.reply.status = 200
    \/ step.reply.data.subStatusCode \in AlreadyExistCodes
    \/ step.reply.data.StatusString.subStatusCode \in AlreadyExistCodes

\* The device's user service answered the creation request, whatever it said.
CreationAnswered(step) ==
    \/ step.error = None
    \/ step.error = "ISAPI returned" /\ step.reply.status = 400

\* C9: createUser returns ok:true whenever the device created the user or
\* answered with an already-exists sub-status; so of two calls for the same
\* employeeNo that the device's user service answers, the second succeeds
\* as well.
C9_CreateUserIdempotent ==
    /\ \A r \in Recorded \cup InTheMaking :
        (r.steps.createUser.present /\ CreationAccepted(r.steps.createUser))
        => r.steps.createUser.ok
    /\ \A i, j \in 1..Len(hs[Handler].results) :
        LET a == hs[Handler].results[i].steps.createUser
            b == hs[Handler].results[j].steps.createUser
        IN  (/\ i < j
             /\ hs[Handler].results[i].employeeNo = hs[Handler].results[j].employeeNo
             /\ a.present /\ a.ok /\ b.present /\ CreationAnswered(b))
            => b.ok /\ b.existed

C9_Witness ==
    LET s == hs[Handler] IN
    /\ Len(s.results) = 2
    /\ s.results[1].employeeNo = s.results[2].employeeNo
    /\ s.results[1].steps.createUser.ok /\ ~s.results[1].steps.createUser.existed
    /\ s.results[2].steps.createUser.ok /\ s.results[2].steps.createUser.existed
    /\ s.results[2].steps.createUser.reply.data.StatusString.subStatusCode
            = "employeeNoAlreadyExist"

\* ============================================================ deletion
NotExistCodes == {"employeeNoNotExist", "deviceUserNotExist"}

DeleteResponded == hs[Handler].kind = "delete" /\ hs[Handler].pc = "responded"

\* The user-record delete of the invocation that just responded was answered
\* with a does-not-exist sub-status.
AnsweredNotExist ==
    LET step == hs[Handler].userDelete IN
    /\ DeleteResponded
    /\ step.present /\ step.error = "ISAPI returned"
    /\ \/ step.reply.data.subStatusCode \in NotExistCodes
       \/ step.reply.data.StatusString.subStatusCode \in NotExistCodes

\* C10: when the device answers the user-record delete with sub-status
\* employeeNoNotExist or deviceUserNotExist, the handler responds 200 with
\* success true; so a second delete of the same user succeeds like the first.
C10_DeleteUnknownUserSucceeds ==
    AnsweredNotExist => hs[Handler].res.status = 200 /\ hs[Handler].res.success

\* The second delete of a user the first one removed.
C10_Witness ==
    /\ AnsweredNotExist
    /\ hs[Handler].n = 2
    /\ hs[Handler].employeeNo \notin dev.users
    /\ hs[Handler].res.status = 200 /\ hs[Handler].res.success
    /\ \E i \in Requests : wire[i].uri = P_DELETE /\ wire[i].call = 2
    /\ req[Handler].no = 4

\* The delete invocation at hand passed the entry checks.
DeletePassedChecks ==
    LET s == hs[Handler] IN
    s.kind = "delete" /\ DeleteChecks(s.method, s.device, s.employeeNo) = NoRes

\* C11: the delete handler calls the face-data delete first and the
\* user-record delete second; when the face-data delete call ends, with or
\* without an error, the user-record delete call starts in the same step; on
\* the wire a face-data delete of an invocation precedes its user-record
\* delete; and the response depends on the user-record delete alone, so a
\* failed face-data delete never turns it into a failure.
C11_FaceThenUser ==
    /\ [](LET s == hs[Handler] IN
          /\ (s.kind = "delete" /\ s.pc = "faceDelete")
                => req[Handler].apiPath = P_FDDELETE /\ req[Handler].no % 2 = 1
          /\ (s.kind = "delete" /\ s.pc = "userDelete")
                => req[Handler].apiPath = P_DELETE /\ req[Handler].no % 2 = 0
          /\ \A i \in Requests :
                /\ wire[i].uri = P_FDDELETE => wire[i].call % 2 = 1
                /\ wire[i].uri = P_DELETE => wire[i].call % 2 = 0
                /\ \A j \in Requests : i < j => wire[i].call <= wire[j].call
          /\ (DeleteResponded /\ DeletePassedChecks)
                => /\ s.userDelete.present
                   /\ req[Handler].apiPath = P_DELETE
                   /\ (s.userDelete.ok /\ s.userDelete.reply.data.statusCode = 1)
                        => (s.res.status = 200 /\ s.res.success)
                   /\ s.res.status = 500 => ~s.userDelete.ok)
    /\ [][(hs[Handler].kind = "delete" /\ hs[Handler].pc = "faceDelete"
             /\ hs'[Handler] # hs[Handler])
          => /\ hs'[Handler].pc = "userDelete"
             /\ req'[Handler].apiPath = P_DELETE
             /\ req'[Handler].no = req[Handler].no + 1]_vars

\* The face-data delete was sent and failed, the user-record delete was sent
\* after it and accepted, and the handler answered success.
C11_Witness ==
    LET s == hs[Handler] IN
    /\ DeleteResponded /\ DeletePassedChecks
    /\ ~s.faceDeleted
    /\ s.res.status = 200 /\ s.res.success /\ s.res.message = "removed from device"
    /\ \E i, j \in Requests :
        /\ i < j
        /\ wire[i].kind = "auth" /\ wire[i].uri = P_FDDELETE
        /\ wire[i].call = req[Handler].no - 1
        /\ wire[j].kind = "auth" /\ wire[j].uri = P_DELETE
        /\ wire[j].call = req[Handler].no

\* C12: in the batch response successCount + failCount is the number of
\* students submitted, successCount is the number of results with success
\* true, and the top-level success flag is true exactly when failCount is 0.
C12_SummaryAddsUp ==
    LET s == hs[Handler] IN
    (BatchResponded /\ s.res.status = 200)
    => /\ s.res.successCount + s.res.failCount = Len(s.students)
       /\ s.res.total = Len(s.students)
       /\ s.res.successCount =
            Cardinality({k \in 1..Len(s.results) : s.results[k].success = "true"})
       /\ s.res.success <=> (s.res.failCount = 0)

\* Two students, one enrolled and one failed.
C12_Witness ==
    LET s == hs[Handler] IN
    /\ BatchResponded /\ s.res.status = 200
    /\ Len(s.students) = 2
    /\ s.res.successCount = 1 /\ s.res.failCount = 1 /\ ~s.res.success

\* A request of the handler's process is on its way or awaiting its answer.
InFlightNow == req[Handler].pc \in {"probing", "sent"}

\* C13: within a batch invocation a request goes out to the device only when
\* none is awaiting its answer (a retried 401 being answered in the step
\* that sends the new probe), nothing is in flight while a photo is
\* downloaded or after the response, and student i is taken up only once
\* the results of students 1..i-1 are recorded.
C13_OneRequestAtATime ==
    /\ [](LET s == hs[Handler] IN
          s.kind = "batch" =>
            /\ InFlightNow => s.pc \in {"createUser", "uploadFace"}
            /\ s.pc \in {"download", "createUser", "uploadFace"}
                 => /\ Len(s.results) = s.i - 1
                    /\ s.result.studentName = s.students[s.i]
                    /\ \A k \in 1..(s.i - 1) : s.results[k].studentName = s.students[k])
    /\ [][/\ Len(wire') > Len(wire)
             => /\ Len(wire') = Len(wire) + 1
                /\ \/ ~InFlightNow
                   \/ req[Handler].pc = "sent" /\ wire'[Len(wire)].refused
          /\ (hs'[Handler].kind = "batch" /\ hs[Handler].kind = "batch"
                /\ hs'[Handler].i = hs[Handler].i + 1)
             => /\ ~InFlightNow
                /\ Len(hs'[Handler].results) = hs[Handler].i
                /\ hs'[Handler].results[hs[Handler].i].studentName
                        = hs[Handler].students[hs[Handler].i]]_vars

\* The second student's user creation is awaiting its answer after the
\* first student's three steps have come and gone.
C13_Witness ==
    LET s == hs[Handler] IN
    /\ s.kind = "batch" /\ s.pc = "createUser" /\ s.i = 2
    /\ Len(s.results) = 1 /\ s.results[1].steps.uploadFace.present
    /\ req[Handler].pc = "sent"
    /\ \E i \in Requests : wire[i].uri = P_FDSETUP /\ i < Len(wire)

\* =============================================================== users
UsersResponded == hs[Handler].kind = "users" /\ hs[Handler].pc = "responded"

\* The first n rows of a sequence.
Take(seq, n) == SubSeq(seq, 1, n)

\* C14: against a device that answers each search with the rows from
\* searchResultPosition on and the true total, every page request of the
\* users handler asks for position = number of users collected so far, what
\* has been collected is that prefix of the directory, and a 200 response
\* holds the whole directory, each user once, in device order.
C14_AllUsersOnce ==
    LET s == hs[Handler] IN
    s.kind = "users" =>
        /\ s.pc = "page"
             => /\ req[Handler].apiPath = P_SEARCH
                /\ req[Handler].data.searchResultPosition = Len(s.allUsers)
                /\ req[Handler].data.maxResults = PageSize
                /\ Len(s.allUsers) <= Len(Directory(dev))
                /\ s.allUsers = Take(Directory(dev), Len(s.allUsers))
        /\ (UsersResponded /\ s.res.status = 200)
             => /\ s.allUsers = Directory(dev)
                /\ s.res.total = Len(Directory(dev))
                /\ \A i, j \in 1..Len(s.allUsers) : i # j => s.allUsers[i] # s.allUsers[j]

\* A directory of 61 users was listed in three pages.
C14_Witness ==
    LET s == hs[Handler] IN
    /\ UsersResponded /\ s.res.status = 200
    /\ Len(Directory(dev)) = 61 /\ s.res.total = 61
    /\ Cardinality({i \in Requests : wire[i].kind = "auth" /\ wire[i].uri = P_SEARCH}) >= 3

\* The capabilities query of connect or users has ended and the handler is
\* about to go on.
CapabilitiesEnded ==
    /\ hs[Handler].kind \in {"connect", "users"}
    /\ hs[Handler].pc = "cap"
    /\ hs'[Handler] # hs[Handler]

\* C15: when the capabilities query of connect or users fails, the handler
\* still answers 200 with success true, the capacity left empty, and the
\* device info, user list and counts gathered before it untouched.
C15_CapabilitiesOptional ==
    /\ [][CapabilitiesEnded =>
            /\ req[Handler].apiPath = P_CAP
            /\ hs'[Handler].pc = "responded"
            /\ hs'[Handler].res.status = 200 /\ hs'[Handler].res.success
            /\ hs'[Handler].capacity.present <=> (req[Handler].pc = "done")
            /\ hs'[Handler].allUsers = hs[Handler].allUsers
            /\ hs'[Handler].deviceInfo = hs[Handler].deviceInfo
            /\ hs'[Handler].totalUsers = hs[Handler].totalUsers
            /\ hs'[Handler].totalFaces = hs[Handler].totalFaces
            /\ hs'[Handler].res.total =
                    IF hs[Handler].kind = "users" THEN Len(hs[Handler].allUsers)
                    ELSE hs[Handler].totalUsers]_vars
    /\ [](LET s == hs[Handler] IN
          (s.kind \in {"connect", "users"} /\ s.pc = "responded"
             /\ req[Handler].apiPath = P_CAP /\ req[Handler].pc = "failed")
          => s.res.status = 200 /\ s.res.success /\ s.capacity = NoCapacity)

\* connect answered success although the device does not support the
\* capabilities endpoint; the users it had listed are in the response.
C15_Witness ==
    LET s == hs[Handler] IN
    /\ s.kind = "connect" /\ s.pc = "responded"
    /\ req[Handler].apiPath = P_CAP /\ req[Handler].pc = "failed"
    /\ req[Handler].err.response.status = 403
    /\ s.res.status = 200 /\ s.res.success /\ ~s.capacity.present
    /\ s.deviceInfo = "info" /\ s.totalUsers = 31 /\ Len(s.allUsers) = 31

\* ================================================ device manager page
BulkDone == hs[DeviceManager].pc = "done"

\* The log holds exactly one entry per user of the bulk delete, in order,
\* with that user's outcome.
LogIsBulkReport ==
    LET s == hs[DeviceManager] IN
    /\ Len(s.deleteLog) = Len(s.toDelete)
    /\ \A k \in 1..Len(s.toDelete) :
          s.deleteLog[k] = LogEntry(s.toDelete[k], s.outcomes[k])

\* The step in which the bulk delete ends.
BulkEnds == hs[DeviceManager].pc = "bulk" /\ hs'[DeviceManager].pc = "done"

\* C16 as stated: when a bulk delete of K users ends it has posted K delete
\* calls and the delete log holds exactly K entries, in order.
C16_LogOfExactlyK ==
    [][BulkEnds => (hs'[DeviceManager].posted = hs'[DeviceManager].toDelete
                    /\ LogIsBulkReport')]_vars

\* C16, amended: a bulk delete posts its delete calls one at a time in list
\* order, each answer appends that user's outcome to the log and brings on
\* the next call whatever the outcome, the bulk delete ends having posted
\* exactly K calls, and the log it ends with is the K outcomes in order
\* provided nothing else (the Clear button, a single-row delete) changed
\* the log while it ran.
C16_BulkDeleteLog ==
    /\ [](LET s == hs[DeviceManager] IN
          /\ s.pc = "bulk"
               => /\ s.posted = SubSeq(s.toDelete, 1, s.k)
                  /\ Len(s.outcomes) = s.k - 1
          /\ BulkDone
               => /\ s.posted = s.toDelete
                  /\ Len(s.outcomes) = Len(s.toDelete))
    /\ [][BulkEnds => (~hs'[DeviceManager].meddled => LogIsBulkReport')]_vars
    /\ [][(hs[DeviceManager].pc = "bulk"
             /\ hs'[DeviceManager].outcomes # hs[DeviceManager].outcomes)
          => /\ Len(hs'[DeviceManager].outcomes) = Len(hs[DeviceManager].outcomes) + 1
             /\ hs'[DeviceManager].deleteLog =
                  Append(hs[DeviceManager].deleteLog,
                         LogEntry(hs[DeviceManager].toDelete[hs[DeviceManager].k],
                                  hs'[DeviceManager].outcomes[hs[DeviceManager].k]))
             /\ IF hs[DeviceManager].k < Len(hs[DeviceManager].toDelete)
                THEN /\ hs'[DeviceManager].pc = "bulk"
                     /\ Len(hs'[DeviceManager].posted) = Len(hs[DeviceManager].posted) + 1
                ELSE hs'[DeviceManager].pc = "done"]_vars

\* Three users were deleted in bulk, the first delete failed, the other two
\* went through, and the log holds the three outcomes.
C16_Witness ==
    LET s == hs[DeviceManager] IN
    /\ BulkDone /\ Len(s.toDelete) = 3 /\ ~s.meddled
    /\ s.outcomes = <<FALSE, TRUE, TRUE>>
    /\ Len(s.deleteLog) = 3 /\ ~s.deleteLog[1].success /\ s.deleteLog[3].success

\* ======================================================= failed probes
\* A 401 whose WWW-Authenticate header starts with 'Digest' in any casing.
IsDigestChallenge(a) ==
    a.net /\ a.status = 401 /\ a.scheme \in {"Digest", "digest", "DIGEST"}

\* The call of process p ended on a probe that was not answered with a
\* Digest challenge.
FailedAtProbe(p) ==
    req[p].probed # NoProbeAnswer /\ ~IsDigestChallenge(req[p].probed)

\* C17 as stated: after such a failure no challenge is cached for the
\* address.
C17_NothingCachedForAddress ==
    \A p \in DOMAIN req :
        FailedAtProbe(p) => ~Cached(challengeCache, req[p].device.ip)

\* C17, amended: a probe that is not answered with a Digest challenge makes
\* the call fail in the step the answer arrives, the step sends nothing and
\* leaves the cache and the counters as they were, and the probe stays the
\* last request the call has sent; a Digest answer is cached and the call
\* goes on.
C17_FailedProbeFailsCall ==
    /\ [](\A p \in DOMAIN req :
            FailedAtProbe(p)
            => /\ req[p].pc = "failed"
               /\ wire[InFlight(p)].kind = "probe"
               /\ wire[InFlight(p)].call = req[p].no)
    /\ [][\A p \in DOMAIN req :
            (req[p].pc = "probing" /\ req'[p].pc # "probing")
            => IF IsDigestChallenge(req'[p].probed)
               THEN /\ req'[p].pc = "challenged"
                    /\ Cached(challengeCache', req[p].device.ip)
               ELSE /\ req'[p].pc = "failed"
                    /\ UNCHANGED <<challengeCache, ncCounters, wire>>]_vars

\* The device answered the probe with a Basic challenge: the call failed
\* with nothing cached and only the probe on the wire.
C17_Witness ==
    \E p \in DOMAIN req :
        /\ req[p].pc = "failed"
        /\ req[p].probed.status = 401 /\ req[p].probed.scheme = "Basic"
        /\ req[p].err.message = "Device did not return a Digest challenge"
        /\ ~Cached(challengeCache, req[p].device.ip)
        /\ \A i \in Requests : wire[i].by = p => wire[i].kind = "probe"

\* ================================================== error responses
\* The latest answer to an authenticated request of the call.
LastStatus(r) == r.answers[Len(r.answers)]
LastBody(r) == r.bodies[Len(r.bodies)]

\* The step in which the authenticated request of process p is answered
\* with a status of 400 or more other than 401.
AnsweredWithError(p) ==
    /\ req[p].pc = "sent"
    /\ Len(req'[p].answers) = Len(req[p].answers) + 1
    /\ LastStatus(req'[p]) >= 400
    /\ LastStatus(req'[p]) # 401

\* C18: an authenticated response with a status of 400 or more other than
\* 401 makes the call fail with an error that carries that status and the
\* response body, no further request is sent for the call, and the
\* challenge cache is left as it was.
C18_ErrorStatusFailsCall ==
    /\ [][\A p \in DOMAIN req :
            AnsweredWithError(p)
            => /\ req'[p].pc = "failed"
               /\ req'[p].err.response.status = LastStatus(req'[p])
               /\ req'[p].err.response.data = LastBody(req'[p])
               /\ req'[p].auths = req[p].auths
               /\ UNCHANGED <<wire, challengeCache, ncCounters>>]_vars
    /\ [](\A p \in DOMAIN req :
            (req[p].pc = "failed" /\ Len(req[p].answers) > 0
               /\ LastStatus(req[p]) >= 400 /\ LastStatus(req[p]) # 401)
            => /\ req[p].err.response.status = LastStatus(req[p])
               /\ wire[InFlight(p)].kind = "auth"
               /\ ~wire[InFlight(p)].refused)

\* A request was answered 403 notSupport: the call failed with that status
\* and body after a single authenticated request, the challenge still cached.
C18_Witness ==
    \E p \in DOMAIN req :
        /\ req[p].pc = "failed" /\ req[p].auths = 1
        /\ req[p].answers = <<403>>
        /\ req[p].err.response.status = 403
        /\ req[p].err.response.data.subStatusCode = "notSupport"
        /\ Cached(challengeCache, req[p].device.ip)
        /\ challengeCache[req[p].device.ip] = req[p].challenge

\* ==================================================== network failures
\* The step in which the probe of process p gets no answer.
ProbeUnanswered(p) ==
    /\ req[p].pc = "probing"
    /\ req'[p].pc # "probing"
    /\ ~req'[p].probed.net

\* The step in which the authenticated request of process p gets no answer.
RequestUnanswered(p) ==
    /\ req[p].pc = "sent"
    /\ Len(req'[p].answers) = Len(req[p].answers) + 1
    /\ LastStatus(req'[p]) = 0

\* The call of process p ended on a network failure.
FailedOnNetwork(p) ==
    /\ req[p].pc = "failed"
    /\ req[p].err.message = "network"

\* C19: when the probe or the authenticated request of a call gets no
\* answer (connection refused, timeout) the call fails in that step, the
\* step sends nothing and leaves the challenge cache and the counters as
\* they were, and the unanswered request stays the last one the call sent.
C19_NetworkFailureFailsCall ==
    /\ [][\A p \in DOMAIN req :
            (ProbeUnanswered(p) \/ RequestUnanswered(p))
            => /\ req'[p].pc = "failed"
               /\ req'[p].err.message = "network"
               /\ req'[p].err.response = NoResponse
               /\ req'[p].probes = req[p].probes
               /\ req'[p].auths = req[p].auths
               /\ UNCHANGED <<wire, challengeCache, ncCounters>>]_vars
    /\ [](\A p \in DOMAIN req :
            FailedOnNetwork(p)
            => /\ wire[InFlight(p)].call = req[p].no
               /\ ~wire[InFlight(p)].refused
               /\ req[p].probes + req[p].auths
                    = Cardinality({i \in Requests :
                                     wire[i].by = p /\ wire[i].call = req[p].no}))

\* An authenticated request sent with a cached challenge timed out: the
\* call failed after that one request and the challenge is still cached.
C19_Witness ==
    \E p \in DOMAIN req :
        /\ FailedOnNetwork(p)
        /\ req[p].cachedAtStart /\ req[p].probes = 0 /\ req[p].auths = 1
        /\ req[p].answers = <<0>>
        /\ Cached(challengeCache, req[p].device.ip)
        /\ challengeCache[req[p].device.ip] = req[p].challenge

\* ================================================= transport failures
\* The calls a handler may lose without failing: the capabilities query of
\* connect and users, the face-data delete of delete.
OptionalCalls == {P_CAP, P_FDDELETE}

\* A step of a student's result ended in a network failure.
StepLost(step) == step.present /\ step.error = "network"

\* C20: a network failure of a device call other than the optional ones is
\* reported: connect and users answer with an error status, delete answers
\* with an error status, and a batch result whose createUser or uploadFace
\* call was lost has success false.
C20_TransportFailureReported ==
    LET s == hs[Handler] IN
    /\ (s.kind \in {"connect", "users"} /\ s.pc = "responded"
          /\ s.failures \ OptionalCalls # {})
         => (s.res.status >= 400 /\ ~s.res.success)
    /\ (DeleteResponded /\ StepLost(s.userDelete))
         => (s.res.status >= 400 /\ ~s.res.success)
    /\ \A r \in Recorded :
         (StepLost(r.steps.createUser) \/ StepLost(r.steps.uploadFace))
         => r.success = "false"

\* ============================================== the Authorization header
\* const md5 = (str) => crypto.createHash('md5').update(str).digest('hex'):
\* the digest is kept as a term naming what was hashed, so two digests are
\* equal exactly when their inputs are.
md5(str) == "md5(" \o str \o ")"

\* crypto.randomBytes(8).toString('hex')
CNonces == {"0a1b2c3d4e5f6071", "f3e2d1c0b9a88776"}

\* Challenges parseDigestHeader can return: the device may leave qop out.
Challenges == [realm : Realms, nonce : Nonces, qop : {None, "auth", "auth-int"}]

\* buildDigestAuth(username, password, method, uri, challenge): the counters
\* it leaves behind and the fields of the header it returns.
buildDigestAuth_StaleNc(counters, username, password, method, uri, challenge, cnonce) ==
    LET realm == challenge.realm
        nonce == challenge.nonce
        qop == Or(challenge.qop, "auth")
        opaque == ""
        key == CounterKey(realm, nonce)
        counters1 == Increment(counters, key)
        nc == NcString(counters1[key])
        ha1 == md5(username \o ":" \o realm \o ":" \o password)
        ha2 == md5(method \o ":" \o uri)
        response == md5(ha1 \o ":" \o nonce \o ":" \o NcString(CounterOf(counters, key))
                        \o ":" \o cnonce \o ":" \o qop \o ":" \o ha2)
    IN  [counters |-> counters1,
         header |-> [username |-> username, realm |-> realm, nonce |-> nonce, uri |-> uri,
                     qop |-> qop, nc |-> nc, cnonce |-> cnonce, response |-> response,
                     opaque |-> opaque]]

buildDigestAuth(counters, username, password, method, uri, challenge, cnonce) ==
    LET realm == challenge.realm
        nonce == challenge.nonce
        qop == Or(challenge.qop, "auth")
        opaque == ""
        key == CounterKey(realm, nonce)
        counters1 == Increment(counters, key)
        nc == NcString(counters1[key])
        ha1 == md5(username \o ":" \o realm \o ":" \o password)
        ha2 == md5(method \o ":" \o uri)
        response == md5(ha1 \o ":" \o nonce \o ":" \o nc \o ":" \o cnonce \o ":" \o qop
                        \o ":" \o ha2)
    IN  [counters |-> counters1,
         header |-> [username |-> username, realm |-> realm, nonce |-> nonce, uri |-> uri,
                     qop |-> qop, nc |-> nc, cnonce |-> cnonce, response |-> response,
                     opaque |-> opaque]]

\* Methods and paths the handlers pass to hikRequest.
Methods == {"get", "post", "put"}
SignedPaths == {P_INFO, P_SEARCH}

\* hikRequest for a device whose challenge is cached, up to the sending of
\* the authenticated request: lines 173-205.  The wire entry keeps, next to
\* what is sent, the arguments of the call (given, password, challenge,
\* count: the counter after this request).
SignRequest(p) ==
    /\ Len(wire) < MaxSigned
    /\ Cached(challengeCache, AnyDevice.ip)
    /\ \E method \in Methods, apiPath \in SignedPaths, cnonce \in CNonces :
        LET httpMethod == toUpperCase(method)
            challenge == challengeCache[AnyDevice.ip]
            built == buildDigestAuth(ncCounters, AnyDevice.username, AnyDevice.password,
                                     httpMethod, apiPath, challenge, cnonce)
        IN  /\ ncCounters' = built.counters
            /\ wire' = Append(wire,
                  [kind |-> "auth", ip |-> AnyDevice.ip, by |-> p, given |-> method,
                   method |-> httpMethod, url |-> "http://" \o AnyDevice.ip \o apiPath,
                   path |-> apiPath, password |-> AnyDevice.password,
                   challenge |-> challenge, Authorization |-> built.header,
                   count |-> built.counters[CounterKey(challenge.realm, challenge.nonce)]])
    /\ UNCHANGED <<challengeCache, req, dev, hs>>

\* The lib after a challenge was cached for the device and n requests were
\* signed with it.
InitDigest ==
    /\ \E ch \in Challenges, n \in 0..MaxCount :
        /\ challengeCache = PutChallenge(<< >>, DeviceIP, ch)
        /\ ncCounters = IF n = 0 THEN << >>
                        ELSE [k \in {CounterKey(ch.realm, ch.nonce)} |-> n]
    /\ dev = [users |-> {}, faces |-> {}, nonces |-> Nonces, unlisted |-> 0]
    /\ wire = NoWire
    /\ req = [p \in {SeqCaller} |-> IdleReq]
    /\ hs = << >>

NextDigest == SignRequest(SeqCaller)

SpecDigest == InitDigest /\ [][NextDigest]_vars

\* The upper-cased name of an HTTP method.
UpperCased(m) == [get |-> "GET", post |-> "POST", put |-> "PUT"][m]

\* C21: the response value of every Authorization header is
\* MD5(MD5(username:realm:password):nonce:nc:cnonce:qop:MD5(METHOD:path))
\* where METHOD is the upper-cased method of the call, path the request path
\* with its query string, qop the challenge's qop or 'auth' when it has
\* none, and nc and cnonce the values of the same header; the header's
\* realm, nonce and uri are the challenge's and the path.
C21_DigestResponse ==
    \A i \in Requests :
        LET m == wire[i]
            h == m.Authorization
            qop == IF m.challenge.qop = None THEN "auth" ELSE m.challenge.qop
            HA1 == md5(h.username \o ":" \o m.challenge.realm \o ":" \o m.password)
            HA2 == md5(UpperCased(m.given) \o ":" \o m.path)
        IN  /\ h.response = md5(HA1 \o ":" \o m.challenge.nonce \o ":" \o h.nc \o ":"
                                \o h.cnonce \o ":" \o qop \o ":" \o HA2)
            /\ h.qop = qop /\ h.realm = m.challenge.realm
            /\ h.nonce = m.challenge.nonce /\ h.uri = m.path
            /\ m.method = UpperCased(m.given)
            /\ m.url = "http://" \o m.ip \o h.uri

\* A post to the user search path was signed with a challenge that has no
\* qop: the response is the chain over POST, the path with its query string
\* and qop 'auth'.
C21_Witness ==
    \E i \in Requests :
        /\ wire[i].given = "post" /\ wire[i].challenge.qop = None
        /\ wire[i].challenge.nonce = "4e6a41"
        /\ wire[i].Authorization.nc = "00000001"
        /\ wire[i].Authorization.cnonce = "0a1b2c3d4e5f6071"
        /\ wire[i].Authorization.response =
             "md5(md5(admin:DS-K1T341AMF:secret):4e6a41:00000001:0a1b2c3d4e5f6071:auth:md5(POST:/ISAPI/AccessControl/UserInfo/Search?format=json))"

\* ================================================== address validation
\* The address check at the head of a handler, applied to one address:
\* users.js lines 19-28.  Nothing is sent in this step.
Validated(h) ==
    LET s == hs[h]
        rejection == UsersChecks(s.method, s.device)
    IN  /\ s.kind = "users" /\ s.pc = "idle"
        /\ hs' = [hs EXCEPT ![h] = IF rejection.status # 0
                                   THEN [s EXCEPT !.pc = "responded", !.res = rejection]
                                   ELSE [s EXCEPT !.pc = "allowed"]]
        /\ UNCHANGED libVars

\* A POST to the users handler with any of the address inputs.
InitAddress ==
    /\ InitLib
    /\ dev = [users |-> {}, faces |-> {}, nonces |-> {"4e6a41"}, unlisted |-> 0]
    /\ wire = NoWire
    /\ req = [p \in {Handler} |-> IdleReq]
    /\ \E parts \in AddressParts :
         hs = [p \in {Handler} |->
                 [IdleHandler EXCEPT !.kind = "users", !.method = "POST",
                     !.device = [ip |-> Literal(parts), username |-> "admin",
                                 password |-> "secret"]]]

NextAddress == Validated(Handler)

SpecAddress == InitAddress /\ [][NextAddress]_vars

\* The parts are four numbers from 0 to 255.
WellFormed(parts) == Len(parts) = 4 /\ \A k \in 1..4 : parts[k] \in 0..255

\* A well-formed address inside one of the private LAN ranges.
InPrivateRange(parts) ==
    /\ WellFormed(parts)
    /\ \/ parts[1] = 10
       \/ parts[1] = 172 /\ parts[2] \in 16..31
       \/ parts[1] = 192 /\ parts[2] = 168

\* C22: the address check lets through exactly the well-formed literals
\* inside the private LAN ranges: every public literal (8.8.8.8 among them)
\* and every malformed input is answered 400 with nothing sent, and
\* 10.26.30.200 is let through.
C22_OnlyPrivateAddresses ==
    LET s == hs[Handler] IN
    s.pc # "idle" =>
        /\ \A parts \in AddressParts :
             s.device.ip = Literal(parts)
             => IF InPrivateRange(parts)
                THEN s.pc = "allowed"
                ELSE s.pc = "responded" /\ s.res.status = 400 /\ wire = NoWire
        /\ s.device.ip = "8.8.8.8" => s.pc = "responded"
        /\ s.device.ip = "10.26.30.200" => s.pc = "allowed"
        /\ s.device.ip \in {"", "x", "10.26.30", "256.26.30.200", "172.32.30.200"}
             => s.pc = "responded"

\* The malformed address 10.26.30.x was answered 400.
C22_Witness ==
    LET s == hs[Handler] IN
    /\ s.pc = "responded" /\ s.device.ip = "10.26.30.x"
    /\ s.res.status = 400

\* ==================================================== invalidation on 401
\* The step in which the authenticated request of process p is answered 401.
Answered401(p) ==
    /\ req[p].pc = "sent"
    /\ Len(req'[p].answers) = Len(req[p].answers) + 1
    /\ LastStatus(req'[p]) = 401

\* The call of process p ended with 'Authentication failed'.
AuthenticationFailed(p) ==
    req[p].pc = "failed" /\ req[p].err.message = "Authentication failed"

\* The step in which process p starts a call.
CallStarts(p) == req'[p].no = req[p].no + 1

\* C23 as stated: once a call has ended with an authentication failure,
\* no challenge is cached for its address.
C23_NoEntryAfterFailure ==
    \A p \in DOMAIN req :
        AuthenticationFailed(p) => ~Cached(challengeCache, req[p].device.ip)

\* C23, amended: when an authenticated request is answered 401 the cache
\* entry of the address is removed in that step: on the first attempt the
\* call goes on by probing again, on the retry it fails with
\* 'Authentication failed' and leaves nothing cached for the address; a
\* call that starts while nothing is cached starts with a probe, one that
\* starts after another call has cached a challenge does not.
C23_InvalidatedOn401 ==
    /\ [][\A p \in DOMAIN req :
            Answered401(p)
            => /\ ~Cached(challengeCache', req[p].device.ip)
               /\ IF req[p].attempt = 0
                  THEN /\ req'[p].pc = "probing"
                       /\ req'[p].probes = req[p].probes + 1
                       /\ wire'[Len(wire')].kind = "probe"
                       /\ wire'[Len(wire')].by = p
                  ELSE /\ req'[p].pc = "failed"
                       /\ AuthenticationFailed(p)'
                       /\ req'[p].err.response.status = 401]_vars
    /\ [][\A p \in DOMAIN req :
            CallStarts(p)
            => IF Cached(challengeCache, req'[p].device.ip)
               THEN req'[p].pc = "challenged" /\ wire' = wire
               ELSE /\ req'[p].pc = "probing"
                    /\ wire'[Len(wire')].kind = "probe"
                    /\ wire'[Len(wire')].by = p]_vars

\* A call was refused on its first attempt and on its retry, each time
\* after a probe of its own, and failed with nothing cached.
C23_Witness ==
    \E p \in DOMAIN req :
        /\ AuthenticationFailed(p)
        /\ req[p].answers = <<401, 401>> /\ req[p].probes = 2
        /\ ~Cached(challengeCache, req[p].device.ip)

\* ========================================================= the nc string
HexDigit == <<"0", "1", "2", "3", "4", "5", "6", "7", "8", "9",
              "a", "b", "c", "d", "e", "f">>

RECURSIVE Pow16(_)
Pow16(e) == IF e = 0 THEN 1 ELSE 16 * Pow16(e - 1)

\* k written with exactly eight hexadecimal digits
EightHexDigits(k) ==
    LET d(i) == HexDigit[((k \div Pow16(8 - i)) % 16) + 1]
    IN  d(1) \o d(2) \o d(3) \o d(4) \o d(5) \o d(6) \o d(7) \o d(8)

\* C24: the nc of every signed request is the count of requests signed with
\* its (realm, nonce) so far, written in base 16 with eight digits.
C24_NcIsEightHexDigits ==
    \A i \in Requests :
        /\ Len(wire[i].Authorization.nc) = 8
        /\ wire[i].Authorization.nc = EightHexDigits(wire[i].count)

\* ====================================================== the nonce counters
\* The authenticated requests sent so far that were signed with the
\* (realm, nonce) the counter key names.
SignedWith(key) ==
    {i \in Requests : IsAuth(i) /\ wire[i].realm \o ":" \o wire[i].nonce = key}

\* The step sends an authenticated request.
SendsAuth == Len(wire') = Len(wire) + 1 /\ wire'[Len(wire')].kind = "auth"

\* C25: a counter is never removed and never decreases; a step that sends an
\* authenticated request adds exactly one to the counter of the (realm,
\* nonce) it is signed with and leaves the others alone, whatever the answer
\* will be, and no other step changes a counter; so each counter is the
\* number of requests signed with its nonce, and the first request signed
\* with a nonce not used before carries nc 00000001.
C25_CounterPerNonce ==
    /\ [][\A key \in DOMAIN ncCounters :
            key \in DOMAIN ncCounters' /\ ncCounters'[key] >= ncCounters[key]]_vars
    /\ [][IF SendsAuth
          THEN LET m == wire'[Len(wire')]
                   key == m.realm \o ":" \o m.nonce
               IN  /\ key \in DOMAIN ncCounters'
                   /\ ncCounters'[key] = CounterOf(ncCounters, key) + 1
                   /\ \A k \in DOMAIN ncCounters' \ {key} :
                        k \in DOMAIN ncCounters /\ ncCounters'[k] = ncCounters[k]
          ELSE ncCounters' = ncCounters]_vars
    /\ [](\A key \in DOMAIN ncCounters :
            ncCounters[key] = Cardinality(SignedWith(key)))
    /\ [](\A i \in Requests :
            (IsAuth(i) /\ \A j \in 1..(i - 1) : ~(IsAuth(j) /\ SameNonce(i, j)))
            => wire[i].nc = "00000001")

\* The second request signed with the first nonce was answered 401, the
\* re-probe brought another nonce, and the retry signed with it carries
\* nc 00000001 while the first nonce's counter stays at 2.
C25_Witness ==
    \E i, j, k \in Requests :
        /\ i < j /\ j < k
        /\ IsAuth(i) /\ IsAuth(j) /\ IsAuth(k)
        /\ SameNonce(i, j) /\ ~SameNonce(j, k)
        /\ wire[i].nc = "00000001" /\ wire[j].nc = "00000002" /\ wire[j].refused
        /\ wire[k].call = wire[j].call /\ wire[k].by = wire[j].by
        /\ wire[k].nc = "00000001"
        /\ ncCounters[wire[j].realm \o ":" \o wire[j].nonce] = 2

\* ================================================== createUser failures
\* The sub-status code createUser reads off a failed call.
SubStatusOf(r) ==
    IF Truthy(r.err.response.data.subStatusCode)
    THEN r.err.response.data.subStatusCode
    ELSE r.err.response.data.StatusString.subStatusCode

\* The step in which the createUser call of the current student ends in a
\* failure that is not one of the already-exists codes.
CreateUserFails ==
    /\ hs[Handler].kind = "batch" /\ hs[Handler].pc = "createUser"
    /\ hs'[Handler] # hs[Handler]
    /\ req[Handler].pc = "failed"
    /\ SubStatusOf(req[Handler]) \notin AlreadyExistCodes

\* C26: when the createUser call of a student fails with anything but an
\* already-exists code (a device error, an authentication failure, a lost
\* request), createUser returns ok false: in that step the student's result
\* is recorded with the createUser step not ok, success false and the error
\* 'Failed to create user on device', no face upload is started and nothing
\* is sent; no recorded result with a failed createUser step has a face
\* upload step.
C26_CreateUserFailureRecorded ==
    /\ [][CreateUserFails
          => LET s == hs[Handler]
                 t == hs'[Handler]
                 r == t.results[Len(t.results)]
             IN  /\ Len(t.results) = Len(s.results) + 1
                 /\ r.studentName = s.result.studentName
                 /\ r.steps.createUser.present /\ ~r.steps.createUser.ok
                 /\ r.steps.createUser.error = req[Handler].err.message
                 /\ r.success = "false"
                 /\ r.error = "Failed to create user on device"
                 /\ ~r.steps.uploadFace.present
                 /\ t.pc # "uploadFace"
                 /\ UNCHANGED <<wire, req, challengeCache, ncCounters>>]_vars
    /\ [](\A r \in Recorded :
            (r.steps.createUser.present /\ ~r.steps.createUser.ok)
            => /\ r.success = "false"
               /\ r.error = "Failed to create user on device"
               /\ ~r.steps.uploadFace.present)

\* The first student's createUser was refused twice by the device, the
\* second student's request was lost: both are recorded as failed at
\* createUser and no face was uploaded.
C26_Witness ==
    LET s == hs[Handler] IN
    /\ BatchResponded /\ Len(s.results) = 2
    /\ s.results[1].steps.createUser.error = "Authentication failed"
    /\ s.results[2].steps.createUser.error = "network"
    /\ \A k \in 1..2 : /\ s.results[k].error = "Failed to create user on device"
                       /\ ~s.results[k].steps.uploadFace.present
    /\ \A i \in Requests : wire[i].uri # P_FDSETUP
    /\ s.res.failCount = 2

\* ===================================================== failed downloads
\* The step in which the photo download of the current student ends.
DownloadEnds ==
    /\ hs[Handler].kind = "batch" /\ hs[Handler].pc = "download"
    /\ hs'[Handler] # hs[Handler]

\* The step in which an iteration of the student loop begins.
IterationBegins ==
    /\ hs'[Handler].kind = "batch" /\ hs'[Handler].pc = "download"
    /\ hs[Handler].pc # "download" \/ hs'[Handler].i # hs[Handler].i

\* C27: a student whose photo download fails is recorded, in the step the
\* download ends, with the download step not ok, success false and the
\* error 'Failed to download photo' and with no createUser or uploadFace
\* step; from the beginning of the student's iteration to that step nothing
\* is sent to the device, no call is in flight, and the challenge cache and
\* the counters stay as they were.
C27_FailedDownloadSendsNothing ==
    /\ [][IterationBegins => UNCHANGED <<wire, req, challengeCache, ncCounters, dev>>]_vars
    /\ [](hs[Handler].pc = "download" => req[Handler].pc \in {"idle", "done", "failed"})
    /\ [][(DownloadEnds /\ hs'[Handler].pc # "createUser")
          => LET s == hs[Handler]
                 t == hs'[Handler]
                 r == t.results[Len(t.results)]
             IN  /\ Len(t.results) = Len(s.results) + 1
                 /\ r.studentName = s.result.studentName
                 /\ r.steps.download.present /\ ~r.steps.download.ok
                 /\ ~r.steps.createUser.present /\ ~r.steps.uploadFace.present
                 /\ r.success = "false" /\ r.error = "Failed to download photo"
                 /\ UNCHANGED <<wire, req, challengeCache, ncCounters, dev>>]_vars
    /\ [][(DownloadEnds /\ hs'[Handler].pc = "createUser")
          => hs'[Handler].result.steps.download.ok]_vars
    /\ [](\A r \in Recorded \cup InTheMaking :
            (r.steps.download.present /\ ~r.steps.download.ok)
            => /\ r \in Recorded
               /\ r.error = "Failed to download photo"
               /\ ~r.steps.createUser.present /\ ~r.steps.uploadFace.present)

\* The first student was enrolled with a probe and two requests, the second
\* student's download failed: the wire still holds those three requests
\* and the counter of the cached nonce is still 2.
C27_Witness ==
    LET s == hs[Handler] IN
    /\ BatchResponded /\ Len(s.results) = 2
    /\ s.results[1].success = "true"
    /\ ~s.results[2].steps.download.ok /\ s.results[2].error = "Failed to download photo"
    /\ Len(wire) = 3 /\ wire[3].nc = "00000002"
    /\ Cached(challengeCache, s.device.ip)
    /\ ncCounters[CounterKey(challengeCache[s.device.ip].realm,
                             challengeCache[s.device.ip].nonce)] = 2

\* ================================================== connect: device info
\* The step in which the device-info request of connect ends.
ConnectInfoEnds ==
    /\ hs[Handler].kind = "connect" /\ hs[Handler].pc = "info"
    /\ hs'[Handler] # hs[Handler]

\* C28: when the device-info request of connect ends in an authentication
\* failure (401 on the first attempt and on the retry) the handler answers
\* 401 'Invalid username or password', when it ends in a refused connection
\* or a timeout the handler answers 502; in both cases it answers in that
\* step and sends nothing more: the wire holds device-info requests only.
C28_ConnectInfoFailure ==
    /\ [][ConnectInfoEnds
          => LET r == req[Handler]
                 t == hs'[Handler]
             IN  /\ (r.pc = "failed" /\ r.err.message = "Authentication failed")
                      => /\ r.answers = <<401, 401>>
                         /\ t.pc = "responded" /\ t.res.status = 401
                         /\ t.res.message = "Invalid username or password"
                         /\ req'[Handler].no = req[Handler].no
                         /\ UNCHANGED <<wire, challengeCache, ncCounters>>
                 /\ (r.pc = "failed" /\ r.err.message = "network")
                      => /\ r.err.code \in {"ECONNREFUSED", "ETIMEDOUT", "ECONNABORTED"}
                         /\ t.pc = "responded" /\ t.res.status = 502
                         /\ req'[Handler].no = req[Handler].no
                         /\ UNCHANGED <<wire, challengeCache, ncCounters>>]_hs
    /\ [](LET s == hs[Handler] IN
          (s.kind = "connect" /\ s.pc = "responded" /\ s.res.status \in {401, 502})
          => /\ \A i \in Requests : wire[i].uri = P_INFO
             /\ req[Handler].apiPath = P_INFO /\ req[Handler].pc = "failed"
             /\ s.totalUsers = 0 /\ s.totalFaces = 0 /\ ~s.capacity.present)

\* The device refused the device-info request on both attempts: connect
\* answered 401 after two probes and two requests for the device info.
C28_Witness ==
    LET s == hs[Handler] IN
    /\ s.kind = "connect" /\ s.pc = "responded"
    /\ s.res.status = 401 /\ s.res.message = "Invalid username or password"
    /\ req[Handler].answers = <<401, 401>>
    /\ Len(wire) = 4 /\ \A i \in Requests : wire[i].uri = P_INFO

\* ============================================================== paging
\* The users handler against a terminal that may count one user in
\* totalMatches that its search never lists.
InitPaging ==
    /\ InitLib
    /\ \E t \in 0..MaxDirectory, unlisted \in {0, 1} :
          dev = [users |-> Enrolled(t), faces |-> {}, nonces |-> {"4e6a41"},
                 unlisted |-> unlisted]
    /\ wire = NoWire
    /\ req = [p \in {Handler} |-> IdleReq]
    /\ hs = [p \in {Handler} |-> IdleHandler]

\* Every awaited request is answered or times out, and the handler then
\* runs on.
SpecPaging == InitPaging /\ [][NextUsers]_vars /\ WF_vars(NextUsers)

Paging == hs[Handler].kind = "users" /\ hs[Handler].pc = "page"

\* The step in which a page that arrived is taken in.
PageArrives == Paging /\ req[Handler].pc = "done" /\ hs'[Handler] # hs[Handler]

\* C29: the paging loop of the users handler terminates.  A page that
\* arrives adds its rows to the position; the loop stops in that step when
\* the position has reached the reported total or the page had no rows, and
\* otherwise asks for the next page at a strictly larger position; the
\* number of page requests stays within the number of pages of the
\* directory plus two; and a handler that is paging eventually is not.
C29_PagingTerminates ==
    /\ [][PageArrives
          => LET info == req[Handler].resp.data.UserInfoSearch
                 rows == Len(info.UserInfo)
                 s == hs[Handler]
                 t == hs'[Handler]
             IN  /\ t.pos = s.pos + rows
                 /\ IF rows = 0 \/ t.pos >= info.totalMatches
                    THEN t.pc # "page" /\ wire' = wire
                    ELSE /\ t.pc = "page"
                         /\ t.pos > s.pos
                         /\ req'[Handler].no = req[Handler].no + 1
                         /\ req'[Handler].data.searchResultPosition = t.pos]_hs
    /\ [](Paging => /\ hs[Handler].pos <= Len(Directory(dev))
                    /\ req[Handler].no <= (Len(Directory(dev)) \div PageSize) + 2)
    /\ (Paging ~> ~Paging)

\* A terminal that lists 61 users and reports 62: the fourth page, asked
\* for at position 61, came back empty and ended the loop.
C29_Witness ==
    LET s == hs[Handler] IN
    /\ s.kind = "users" /\ s.pc = "firestore"
    /\ dev.unlisted = 1 /\ Len(Directory(dev)) = 61
    /\ s.pos = 61 /\ Len(s.allUsers) = 61
    /\ req[Handler].no = 4
    /\ req[Handler].data.searchResultPosition = 61
    /\ req[Handler].resp.data.UserInfoSearch.UserInfo = << >>
    /\ req[Handler].resp.data.UserInfoSearch.totalMatches = 62

\* ------------------------------------------------ colliding employee numbers
\* Two different student names with the same first eight hex digits of
\* their MD5, hence the same employeeNo.
Twins == {"Endah Susanto Halim 11", "Endah Lim Halim 35"}

\* Request bodies whose students all derive one employeeNo.
TwinLists == UNION {[1..n -> Twins] : n \in 0..MaxStudents}

NextTwins ==
    \/ Enroll(Handler, TwinLists)
    \/ Downloaded(Handler)
    \/ UserCreated(Handler)
    \/ FaceUploaded(Handler)
    \/ ProbeAnswered(Handler)
    \/ SendAuthenticated(Handler)
    \/ Answered(Handler)

SpecTwins == InitHandler /\ [][NextTwins]_vars

\* The terminal accepted the face upload of this result.
UploadAccepted(result) ==
    /\ result.steps.uploadFace.present
    /\ result.steps.uploadFace.reply.status = 200
    /\ result.steps.uploadFace.reply.data.statusCode = 1

\* C30: of two students of one batch with the same employeeNo (same name or
\* not) whose face uploads the terminal accepted, both are reported
\* success:true without an error, the createUser of the second is recorded
\* as already existing, and every face upload is addressed to the FPID that
\* is the employeeNo of its student, so both go to the same FPID.
C30_CollidingStudentsSucceed ==
    LET s == hs[Handler] IN
    /\ (s.kind = "batch" /\ s.pc = "uploadFace")
         => /\ req[Handler].apiPath = P_FDSETUP
            /\ req[Handler].data.employeeNo = s.result.employeeNo
    /\ s.kind = "batch" =>
         \A i, j \in 1..Len(s.results) :
            (/\ i < j
             /\ s.results[i].employeeNo = s.results[j].employeeNo
             /\ UploadAccepted(s.results[i])
             /\ UploadAccepted(s.results[j]))
            => /\ s.results[i].success = "true" /\ s.results[i].error = None
               /\ s.results[j].success = "true" /\ s.results[j].error = None
               /\ s.results[j].steps.createUser.ok
               /\ s.results[j].steps.createUser.existed

C30_Witness ==
    LET s == hs[Handler] IN
    /\ s.kind = "batch" /\ s.pc = "responded" /\ Len(s.results) = 2
    /\ s.results[1].studentName # s.results[2].studentName
    /\ s.results[1].employeeNo = s.results[2].employeeNo
    /\ UploadAccepted(s.results[1]) /\ UploadAccepted(s.results[2])
    /\ ~s.results[1].steps.createUser.existed
    /\ s.results[2].steps.createUser.existed
    /\ s.results[1].success = "true" /\ s.results[2].success = "true"
    /\ dev.faces = {s.results[1].employeeNo}

\* ===================================================== last probe wins
\* The step in which the probe of process p is answered with a Digest
\* challenge.
ProbeCompletes(p) ==
    /\ req[p].pc = "probing"
    /\ req'[p].pc = "challenged"

\* C31: the cache holds at most one challenge per device address (it has
\* one entry per address, each a single challenge), and every probe that
\* returns a challenge replaces the entry of its address with that
\* challenge, whatever another call's probe stored before: of several
\* probes for one address the one that completed last is the one cached.
\* The entry changes in no other way than by such a probe or by removal.
C31_LastProbeWins ==
    /\ [](/\ DOMAIN challengeCache \subseteq {DeviceIP}
          /\ \A a \in DOMAIN challengeCache :
                /\ challengeCache[a].realm \in Realms
                /\ challengeCache[a].nonce \in Nonces)
    /\ [][\A p \in DOMAIN req :
            ProbeCompletes(p)
            => /\ Cached(challengeCache', req[p].device.ip)
               /\ challengeCache'[req[p].device.ip] = req'[p].challenge]_vars
    /\ [][(challengeCache' # challengeCache)
            => \/ \E p \in DOMAIN req : ProbeCompletes(p)
               \/ \E p \in DOMAIN req :
                    /\ Answered401(p)
                    /\ challengeCache' = invalidateChallenge(challengeCache, req[p].device.ip)]_vars

\* Two calls missed the cache and probed; the probes returned different
\* nonces, and the cache holds the one that came back last while the other
\* call still holds the one it got.
C31_Witness ==
    \E p, q \in DOMAIN req :
        /\ p # q
        /\ req[p].pc = "challenged" /\ req[p].probes = 1 /\ ~req[p].cachedAtStart
        /\ req[q].pc = "challenged" /\ req[q].probes = 1 /\ ~req[q].cachedAtStart
        /\ req[p].challenge.nonce # req[q].challenge.nonce
        /\ Cached(challengeCache, DeviceIP)
        /\ challengeCache[DeviceIP] = req[q].challenge

\* ============================================== the retry's own challenge
\* The step in which process p sends the authenticated request of its
\* second attempt.
RetrySent(p) ==
    /\ req[p].pc = "challenged" /\ req[p].attempt = 1
    /\ req'[p].pc = "sent"

\* The i-th request on the wire is the retry of a call: an authenticated
\* request that follows a refused one of the same call.
IsRetry(i) ==
    /\ IsAuth(i)
    /\ \E j \in 1..(i - 1) :
        IsAuth(j) /\ wire[j].by = wire[i].by /\ wire[j].call = wire[i].call

\* C32: under any interleaving of the calls to one device, the step that
\* receives the 401 of the first attempt removes the cache entry and sends
\* the call's new probe, with nothing of another call in between; the
\* challenge that probe returns is the one the call holds until it signs,
\* whatever other calls write to the cache meanwhile, and the retry is
\* signed with it.  On the wire every retry follows a probe of its own call
\* that was sent after the refused request.
C32_RetryUsesOwnProbe ==
    /\ [](\A i \in Requests :
            IsRetry(i)
            => \E j, k \in 1..(i - 1) :
                /\ j < k
                /\ IsAuth(j) /\ wire[j].by = wire[i].by /\ wire[j].call = wire[i].call
                /\ wire[j].refused
                /\ IsProbe(k) /\ wire[k].by = wire[i].by /\ wire[k].call = wire[i].call)
    /\ [](\A p \in DOMAIN req :
            (req[p].pc = "challenged" /\ req[p].attempt = 1)
            => IsDigestChallenge(req[p].probed))
    /\ [][\A p \in DOMAIN req :
            (Answered401(p) /\ req[p].attempt = 0)
            => /\ challengeCache' = invalidateChallenge(challengeCache, req[p].device.ip)
               /\ req'[p].pc = "probing" /\ req'[p].attempt = 1
               /\ wire'[Len(wire')] = ProbeMsg(p, req'[p])]_vars
    /\ [][\A p \in DOMAIN req :
            (req[p].attempt = 1 /\ ProbeCompletes(p))
            => /\ req'[p].attempt = 1
               /\ \E ans \in ProbeAnswers(dev) :
                    /\ IsDigestChallenge(ans)
                    /\ req'[p].challenge = parseDigestHeader(ans)]_vars
    /\ [][\A p \in DOMAIN req :
            (req[p].pc = "challenged" /\ req[p].attempt = 1)
            => /\ req'[p].challenge = req[p].challenge
               /\ RetrySent(p)
                    => /\ wire'[Len(wire')].kind = "auth"
                       /\ wire'[Len(wire')].by = p
                       /\ wire'[Len(wire')].call = req[p].no
                       /\ wire'[Len(wire')].realm = req[p].challenge.realm
                       /\ wire'[Len(wire')].nonce = req[p].challenge.nonce]_vars

\* A retry is on the wire, signed with the nonce its own probe returned,
\* while the cache holds another nonce that another call's probe stored
\* after it.
C32_Witness ==
    \E p \in DOMAIN req :
        /\ req[p].pc = "sent" /\ req[p].attempt = 1
        /\ req[p].answers = <<401>> /\ req[p].probes >= 1
        /\ IsRetry(InFlight(p))
        /\ wire[InFlight(p)].nonce = req[p].challenge.nonce
        /\ Cached(challengeCache, DeviceIP)
        /\ challengeCache[DeviceIP].nonce # req[p].challenge.nonce

\* ============================================ a 401 for an older challenge
\* The cache holds a challenge other than the one the request in flight of
\* process p was signed with: another call stored it after p got its own.
NewerCached(p) ==
    /\ Cached(challengeCache, req[p].device.ip)
    /\ challengeCache[req[p].device.ip] # req[p].challenge

\* C33: with concurrent calls to one device, a 401 for a request signed
\* with an older challenge leaves in the cache the newer challenge another
\* call stored in the meantime.
C33_NewerChallengeKept ==
    [][\A p \in DOMAIN req :
            (Answered401(p) /\ NewerCached(p))
            => /\ Cached(challengeCache', req[p].device.ip)
               /\ challengeCache'[req[p].device.ip] = challengeCache[req[p].device.ip]]_vars

\* ================================================== a call's requests
\* Every request a call awaits is answered or times out (the probe after
\* 10 s, the authenticated request after 15 s), and the code between two
\* awaits runs to its end.
SpecAuthLive ==
    /\ InitAuth
    /\ [][NextAuth]_vars
    /\ \A c \in Callers :
        WF_vars(ProbeAnswered(c) \/ SendAuthenticated(c) \/ Answered(c))

\* The call of process p is under way.
InCall(p) == req[p].pc \in {"probing", "challenged", "sent"}

\* The requests on the wire that the current call of process p sent.
SentBy(p, kind) ==
    {i \in Requests : wire[i].by = p /\ wire[i].call = req[p].no /\ wire[i].kind = kind}

\* C34: under any interleaving with other calls, one hikRequest call sends
\* at most two probes and at most two authenticated requests, and a call
\* under way always returns or fails.
C34_TwoProbesTwoRequests ==
    /\ [](\A p \in DOMAIN req :
            /\ req[p].probes <= 2 /\ req[p].auths <= 2
            /\ req[p].probes = Cardinality(SentBy(p, "probe"))
            /\ req[p].auths = Cardinality(SentBy(p, "auth"))
            /\ req[p].attempt \in {0, 1})
    /\ \A p \in Callers : InCall(p) ~> req[p].pc \in {"done", "failed"}

\* A call that missed the cache has sent two probes and two authenticated
\* requests and failed, while the other caller had requests of its own on
\* the wire.
C34_Witness ==
    \E p, q \in DOMAIN req :
        /\ p # q
        /\ req[p].pc = "failed"
        /\ req[p].probes = 2 /\ req[p].auths = 2
        /\ Cardinality(SentBy(p, "probe")) = 2 /\ Cardinality(SentBy(p, "auth")) = 2
        /\ \E i \in Requests : wire[i].by = q

\* ==================================================== what a call returns
\* C35: a hikRequest call that resolves does so with the response of its
\* latest authenticated request, whose status is below 400 (so not 401) and
\* which is a value; a call that does not resolve that way fails with an
\* error, which carries the refusing response unless the call failed on
\* the probe that followed it.  The two-attempt loop never runs to its end.
C35_ResolvesBelow400OrFails ==
    \A p \in DOMAIN req :
        LET r == req[p] IN
        /\ r.pc = "done"
            => /\ r.resp # NoResponse
               /\ r.resp.status > 0 /\ r.resp.status < 400
               /\ Len(r.answers) >= 1 /\ r.resp.status = LastStatus(r)
               /\ r.err = NoError
        /\ r.pc = "failed"
            => /\ r.err.message # None
               /\ r.resp = NoResponse
        /\ (r.pc \in {"done", "failed"} /\ Len(r.answers) >= 1
              /\ LastStatus(r) >= 400)
            => /\ r.pc = "failed"
               /\ ~FailedAtProbe(p) => r.err.response.status = LastStatus(r)

\* One call resolved with a 200 on its retry after a 401, and the other
\* caller's call was refused twice and failed.
C35_Witness ==
    \E p, q \in DOMAIN req :
        /\ req[p].pc = "done" /\ req[p].answers = <<401, 200>>
        /\ req[p].resp.status = 200
        /\ req[q].pc = "failed" /\ req[q].answers = <<401, 401>>
        /\ req[q].err.message = "Authentication failed"

\* ================================================ the batch comes to an end
\* Every photo download and every device request the batch awaits is
\* answered or times out (15 s each), and the code between two awaits runs
\* to its end.
SpecBatchLive ==
    /\ InitHandler
    /\ [][NextBatch]_vars
    /\ WF_vars(\/ Downloaded(Handler) \/ UserCreated(Handler) \/ FaceUploaded(Handler)
               \/ ProbeAnswered(Handler) \/ SendAuthenticated(Handler)
               \/ Answered(Handler))

\* The batch passed the entry checks and has not responded.
BatchUnderWay ==
    /\ hs[Handler].kind = "batch"
    /\ hs[Handler].pc # "responded"

\* How many students of the batch the given step ("download", "createUser"
\* or "uploadFace") has been started for.
StepsStarted(step) ==
    LET s == hs[Handler] IN
    Cardinality({k \in 1..Len(s.results) : s.results[k].steps[step].present})
    + (IF InTheMaking # {} /\ (s.pc = step \/ s.result.steps[step].present)
       THEN 1 ELSE 0)

\* C36: a batch-enroll invocation with N students that passed the entry
\* checks always ends with a 200 response carrying the N results, given
\* that every download and device request completes or times out, and it
\* makes at most N downloads, N createUser calls and N uploadFace calls.
C36_BatchEndsWith200 ==
    /\ [](hs[Handler].kind = "batch" =>
            LET n == Len(hs[Handler].students) IN
            /\ StepsStarted("download") <= n
            /\ StepsStarted("createUser") <= n
            /\ StepsStarted("uploadFace") <= n
            /\ req[Handler].no = StepsStarted("createUser") + StepsStarted("uploadFace"))
    /\ BatchUnderWay ~>
          /\ BatchResponded
          /\ hs[Handler].res.status \in {200, 400, 405}
          /\ hs[Handler].res.status = 200
                => Len(hs[Handler].results) = Len(hs[Handler].students)

\* ================================================= when a delete succeeds
\* The reply that ended the user-record delete of the invocation at hand.
DeleteReply == hs[Handler].userDelete.reply

\* The device answered the user-record delete without an error.
DeleteAnswered == hs[Handler].userDelete.present /\ hs[Handler].userDelete.ok

\* The user-record delete failed with a does-not-exist sub-status.
DeleteSaidNotExist ==
    /\ hs[Handler].userDelete.present /\ ~hs[Handler].userDelete.ok
    /\ \/ DeleteReply.data.subStatusCode \in NotExistCodes
       \/ DeleteReply.data.StatusString.subStatusCode \in NotExistCodes

\* The user-record delete failed with badJsonContent for the field
\* employeeNo.
DeleteSaidBadEmployeeNo ==
    /\ hs[Handler].userDelete.present /\ ~hs[Handler].userDelete.ok
    /\ Or(Or(DeleteReply.data.subStatusCode, DeleteReply.data.StatusString.subStatusCode), "")
         = "badJsonContent"
    /\ DeleteReply.data.errorMsg = "employeeNo"

\* A non-error answer with a statusCode other than 1 gives 502 'Device
\* rejected delete request'.
OtherStatusCodeGives502 ==
    (DeleteResponded /\ DeleteAnswered /\ DeleteReply.data.statusCode # 1)
    => /\ hs[Handler].res.status = 502 /\ ~hs[Handler].res.success
       /\ hs[Handler].res.error = "Device rejected delete request"

\* C37 as stated: the delete handler reports success only if the device
\* confirmed the user-record delete with statusCode 1 or answered with a
\* does-not-exist sub-status, and a non-error answer with another
\* statusCode gives the 502 response.
C37_SuccessOnlyIfConfirmed ==
    /\ (DeleteResponded /\ hs[Handler].res.success)
        => \/ DeleteAnswered /\ DeleteReply.data.statusCode = 1
           \/ DeleteSaidNotExist
    /\ OtherStatusCodeGives502

\* C37, amended: the delete handler reports success only if the device
\* confirmed the user-record delete with statusCode 1, or refused it with a
\* does-not-exist sub-status, or refused it with badJsonContent naming the
\* field employeeNo; a non-error answer with another statusCode gives the
\* 502 response, and every other failure gives 500.
C37_SuccessOnlyIfConfirmedOrUnknown ==
    /\ (DeleteResponded /\ hs[Handler].res.success)
        => /\ hs[Handler].res.status = 200
           /\ \/ DeleteAnswered /\ DeleteReply.data.statusCode = 1
              \/ DeleteSaidNotExist
              \/ DeleteSaidBadEmployeeNo
    /\ OtherStatusCodeGives502
    /\ (DeleteResponded /\ hs[Handler].userDelete.present /\ ~hs[Handler].userDelete.ok
          /\ ~DeleteSaidNotExist /\ ~DeleteSaidBadEmployeeNo)
        => hs[Handler].res.status = 500 /\ ~hs[Handler].res.success

\* The device answered the user-record delete 200 with statusCode 3
\* (deviceBusy): the handler responded 502 and the user is still enrolled.
C37_Witness ==
    /\ DeleteResponded /\ DeleteAnswered
    /\ DeleteReply.status = 200 /\ DeleteReply.data.statusCode = 3
    /\ hs[Handler].res.status = 502
    /\ hs[Handler].res.error = "Device rejected delete request"
    /\ hs[Handler].employeeNo \in dev.users

\* ==================================================== enrollment portal
\* The HikvisionPortal component at its step "Select Students", as one more
\* process of hs: its React state (students, enrolledUsers, selectedIds in
\* insertion order, searchQuery), the list handleEnroll prepared (toEnroll)
\* and the batch it posted (posted), and, for the record only, the students
\* the user ticked (ticked).
Portal == "portal"

Student(studentName, className) == [studentName |-> studentName, className |-> className]

\* The students /api/dataset/list returned.
Catalogue ==
    <<Student("Ana", "1A"), Student("Budi", "1A"), Student("Ani", "1B"),
      Student("Citra", "1B")>>
Dataset == SubSeq(Catalogue, 1, MaxDataset)

\* What the user types into the search box.
Queries == {"", "An", "1b", "BU"}

\* s.includes(q)
includes(s, q) == \E i \in 0..(Len(s) - Len(q)) : SubSeq(s, i + 1, i + Len(q)) = q

\* students.filter(...): part_003 lines 159-165
filteredStudents(students, searchQuery) ==
    LET q == toLowerCase(searchQuery)
    IN  SelectSeq(students, LAMBDA s : \/ includes(toLowerCase(s.studentName), q)
                                       \/ includes(toLowerCase(s.className), q))

\* isEnrolledOnDevice(studentName): part_003 lines 116-123
isEnrolledOnDevice(enrolledUsers, studentName) ==
    \E u \in enrolledUsers : toLowerCase(u) = toLowerCase(studentName)

\* selectedIds.has(idx)
Has(ids, idx) == \E k \in 1..Len(ids) : ids[k] = idx

\* [0, 1, ..., n - 1]
Indices(n) == [k \in 1..n |-> k - 1]

IdlePortal ==
    [kind |-> "portal", pc |-> "select",
     students |-> << >>, enrolledUsers |-> {}, selectedIds |-> << >>,
     searchQuery |-> "", toEnroll |-> << >>, posted |-> << >>, ticked |-> {}]

\* The list the page shows.
Shown(s) == filteredStudents(s.students, s.searchQuery)

\* toggleSelect(idx), the click on the card at index idx: lines 126-136
toggleSelect(p) ==
    LET s == hs[p] IN
    /\ s.pc = "select"
    /\ \E idx \in 0..(Len(Shown(s)) - 1) :
        hs' = [hs EXCEPT ![p] =
                 IF Has(s.selectedIds, idx)
                 THEN [s EXCEPT !.selectedIds = SelectSeq(@, LAMBDA i : i # idx),
                                !.ticked = @ \ {Shown(s)[idx + 1]}]
                 ELSE [s EXCEPT !.selectedIds = Append(@, idx),
                                !.ticked = @ \cup {Shown(s)[idx + 1]}]]
    /\ UNCHANGED libVars

\* toggleSelectAll(): lines 139-145
toggleSelectAll(p) ==
    LET s == hs[p] IN
    /\ s.pc = "select"
    /\ hs' = [hs EXCEPT ![p] =
                IF Len(s.selectedIds) = Len(Shown(s))
                THEN [s EXCEPT !.selectedIds = << >>, !.ticked = {}]
                ELSE [s EXCEPT !.selectedIds = Indices(Len(Shown(s))),
                               !.ticked = Elements(Shown(s))]]
    /\ UNCHANGED libVars

\* selectUnenrolled(): lines 148-156
selectUnenrolled(p) ==
    LET s == hs[p]
        new(i) == ~isEnrolledOnDevice(s.enrolledUsers, Shown(s)[i + 1].studentName)
    IN
    /\ s.pc = "select"
    /\ hs' = [hs EXCEPT ![p] =
                [s EXCEPT !.selectedIds = SelectSeq(Indices(Len(Shown(s))), new),
                          !.ticked = {Shown(s)[i + 1] : i \in {j \in 0..(Len(Shown(s)) - 1) : new(j)}}]]
    /\ UNCHANGED libVars

\* onChange={(e) => setSearchQuery(e.target.value)}: line 406
setSearchQuery(p) ==
    /\ hs[p].pc = "select"
    /\ \E q \in Queries \ {hs[p].searchQuery} :
        hs' = [hs EXCEPT ![p].searchQuery = q]
    /\ UNCHANGED libVars

\* batch = toEnroll.slice(0, batchSize)
FirstBatch(toEnroll) == SubSeq(toEnroll, 1, IF Len(toEnroll) < 5 THEN Len(toEnroll) ELSE 5)

\* handleEnroll up to its first await: lines 168-199.  The button is shown
\* while the list is not empty and enabled while something is selected
\* (lines 525, 541); filteredStudents[idx] is undefined for an index past
\* the end of the list, and reading its studentName throws.
handleEnroll(p) ==
    LET s == hs[p]
        inRange == \A k \in 1..Len(s.selectedIds) : s.selectedIds[k] < Len(Shown(s))
        toEnroll == [k \in 1..Len(s.selectedIds) |-> Shown(s)[s.selectedIds[k] + 1]]
    IN
    /\ s.pc = "select"
    /\ Len(Shown(s)) > 0
    /\ Len(s.selectedIds) # 0
    /\ hs' = [hs EXCEPT ![p] =
                IF inRange
                THEN [s EXCEPT !.pc = "enrolling", !.toEnroll = toEnroll,
                               !.posted = FirstBatch(toEnroll)]
                ELSE [s EXCEPT !.pc = "threw"]]
    /\ UNCHANGED libVars

\* The portal after handleConnect and loadDataset: the dataset is listed,
\* nothing is selected, the search box is empty.
InitPortal ==
    /\ InitLib
    /\ dev = [users |-> {}, faces |-> {}, nonces |-> {"4e6a41"}, unlisted |-> 0]
    /\ wire = NoWire
    /\ req = [p \in {Portal} |-> IdleReq]
    /\ \E enrolledUsers \in SUBSET {"ana", "Citra"} :
          hs = [p \in {Portal} |->
                  [IdlePortal EXCEPT !.students = Dataset,
                                     !.enrolledUsers = enrolledUsers]]

NextPortal ==
    \/ toggleSelect(Portal)
    \/ toggleSelectAll(Portal)
    \/ selectUnenrolled(Portal)
    \/ setSearchQuery(Portal)
    \/ handleEnroll(Portal)

SpecPortal == InitPortal /\ [][NextPortal]_vars

\* The students whose cards show the tick of a selected student.
ShownSelected(s) ==
    {Shown(s)[i + 1] : i \in {j \in 0..(Len(Shown(s)) - 1) : Has(s.selectedIds, j)}}

\* C38: the students the portal sends for enrollment are exactly the
\* students the user ticked: after any sequence of toggleSelect, select-all,
\* select-unenrolled and search changes, handleEnroll sends the students
\* shown as selected, these are the students ticked, and a change of the
\* search filter leaves the set of students that would be enrolled as it
\* was.
C38_EnrollsTickedStudents ==
    /\ [](hs[Portal].pc # "threw")
    /\ [](hs[Portal].pc = "enrolling"
            => /\ Elements(hs[Portal].toEnroll) = ShownSelected(hs[Portal])
               /\ Elements(hs[Portal].toEnroll) = hs[Portal].ticked
               /\ Elements(hs[Portal].posted) = hs[Portal].ticked)
    /\ [][hs'[Portal].searchQuery # hs[Portal].searchQuery
            => ShownSelected(hs[Portal])' = ShownSelected(hs[Portal])]_vars

====
